---- MODULE Spec2Model ----
(***************************************************************************)
(* A model of the vfs-core virtual machine (src/src/lib.rs): the Machine   *)
(* interpreter with its syscalls, VFS and fd table, and the host interface *)
(* of DREInstance (tick, send_input, read_output).                         *)
(*                                                                         *)
(* Scaling.  The machine's word is a u64 stored as 8 little-endian bytes   *)
(* and its memory is 1 MiB.  The model keeps bytes as they are (0..255)    *)
(* and stores a word as WordBytes little-endian bytes, so that a word is   *)
(* a number below ByteMod^WordBytes; usize is taken as wide as the word    *)
(* (a 64-bit build).  Memory is a sequence of bytes whose length is chosen *)
(* by the initial state; address a is memory[a + 1].                       *)
(*                                                                         *)
(* Programs.  Machine::step fetches the opcode and the immediate from      *)
(* memory at ip.  The code section [0, code_len) of the loaded image is    *)
(* left open: an instruction fetched there is drawn from a menu, one       *)
(* instruction per fetch, which covers every program whose instructions    *)
(* are on the menu.  Outside the code section the fetch reads memory.      *)
(***************************************************************************)
EXTENDS Integers, Sequences, FiniteSets, TLC

VARIABLES
    memory,      \* Machine.memory: Vec<u8>
    stack,       \* Machine.stack: Vec<u64>, the top is the last element
    call_stack,  \* Machine.call_stack: Vec<(usize, usize)> of <<ret_ip, old_bp>>
    ip, bp, sp,  \* Machine.ip, bp, sp
    vfs,         \* Machine.vfs: path -> bytes
    fds,         \* Machine.fds: fd -> <<path, cursor>>
    next_fd,     \* Machine.next_fd
    brk,         \* Machine.brk
    result,      \* what the last call returned: "none", "Ok_true", "Ok_false", "Err", "panic"
    sent,        \* history: the bytes passed to send_input so far, in order
    got0,        \* history: the bytes READ syscalls on fd 0 copied into memory, in order
    wrote,       \* history: the latest WRITE to a file, <<path, cursor, len, bytes>>
    abi,         \* an abi::vm::Machine: [stack, ip, program] and what its last step returned
    cycles,      \* the iterations left to the tick(cycles) call in progress; 0 between calls
    called,      \* history: whether a CALL has pushed onto the call stack so far
    src,         \* the C source given to MiniCC::new, as its characters; "" when none is
    source,      \* the assembly given to Assembler::compile_bef, as its tokens in order
    cc_data      \* the data segment given to Assembler::compile_bef (MiniCC.data)

vars == <<memory, stack, call_stack, ip, bp, sp, vfs, fds, next_fd, brk,
          result, sent, got0, wrote, abi, cycles, called, src, source, cc_data>>

\* ------------------------------------------------------------------ widths

ByteMod == 256
WordBytes == 2

RECURSIVE Pow(_, _)
Pow(b, n) == IF n = 0 THEN 1 ELSE b * Pow(b, n - 1)

WordMod == Pow(ByteMod, WordBytes)
USizeMod == WordMod

\* u64::to_le_bytes: the bytes of v, least significant first, as a sequence.
to_le_bytes(v) == [i \in 1..WordBytes |-> (v \div Pow(ByteMod, i - 1)) % ByteMod]

RECURSIVE LeSum(_, _)
LeSum(b, n) == IF n = 0 THEN 0 ELSE LeSum(b, n - 1) + b[n] * Pow(ByteMod, n - 1)

\* u64::from_le_bytes of a sequence of WordBytes bytes.
from_le_bytes(b) == LeSum(b, WordBytes)

wrapping_add(a, b) == (a + b) % WordMod
wrapping_sub(a, b) == (a - b + WordMod) % WordMod

\* ------------------------------------------------------------------ opcodes

HALT == 0
PUSH == 16
ADD == 32
SUB == 33
NOT == 36
LT == 37
JMP == 48
JZ == 49
CALL == 64
RET == 66
GETBP == 80
LLOAD == 96
LSTORE == 97
MLOAD == 98
MSTORE == 99
MLOAD8 == 112
MSTORE8 == 113
SYSCALL == 128

SYS_OPEN == 1
SYS_READ == 2
SYS_WRITE == 3
SYS_SBRK == 4

HasImm(op) == op \in {PUSH, JMP, JZ, CALL, LLOAD, LSTORE}

\* "/dev/stdin" and "/dev/stdout" as the bytes of their characters.
StdinPath == <<47, 100, 101, 118, 47, 115, 116, 100, 105, 110>>
StdoutPath == <<47, 100, 101, 118, 47, 115, 116, 100, 111, 117, 116>>

\* ------------------------------------------------------------------ memory

\* memory[a] for an address a < memory.len().
At(mem, a) == mem[a + 1]

\* Whether the slice mem[a .. a+w] exists; Rust panics when it does not.
SliceOk(mem, a, w) == a + w <= Len(mem)

\* mem[a .. a+w] as a sequence of w bytes.
Slice(mem, a, w) == [i \in 1..w |-> mem[a + i]]

\* mem[a .. a+w].copy_from_slice(b)
CopyIn(mem, a, b) ==
    [i \in 1..Len(mem) |-> IF i > a /\ i <= a + Len(b) THEN b[i - a] ELSE mem[i]]

\* ------------------------------------------------------------------ machine

\* The machine as a record, the value the step operators transform.
Cur ==
    [memory |-> memory, stack |-> stack, call_stack |-> call_stack,
     ip |-> ip, bp |-> bp, sp |-> sp, vfs |-> vfs, fds |-> fds,
     next_fd |-> next_fd, brk |-> brk, result |-> result]

Top(s) == s[Len(s)]
Pop(s) == SubSeq(s, 1, Len(s) - 1)
\* The stack after k successful pops.
PopN(s, k) == SubSeq(s, 1, Len(s) - k)
\* The k-th value popped (1 = the top).
Popped(s, k) == s[Len(s) + 1 - k]

\* A Rust panic: the call does not return; what was mutated before stays.
Panic(m) == [m EXCEPT !.result = "panic"]

\* stack.pop().unwrap() on too short a stack: the pops that succeed empty it.
Underflow(m) == Panic([m EXCEPT !.stack = <<>>])

Continue(m) == [m EXCEPT !.result = "Ok_true"]

\* usize addition: a build with overflow checks panics, one without wraps.
Ovf(a, b) == a + b >= USizeMod
Wrap(a) == a % USizeMod

\* ------------------------------------------------------------------ instructions
\* Each operator takes the machine after the opcode fetch (ip already past
\* the opcode byte), the immediate imm that the bytes at ip encode, and chk,
\* whether the build checks integer overflow.

\* 0x00
ExecHalt(m) == [m EXCEPT !.result = "Ok_false"]

\* 0x10
ExecPush(m, imm) ==
    IF ~SliceOk(m.memory, m.ip, WordBytes) THEN Panic(m)
    ELSE Continue([m EXCEPT !.stack = Append(@, imm), !.ip = @ + WordBytes])

\* 0x20
ExecAdd(m) ==
    IF Len(m.stack) < 2 THEN Underflow(m)
    ELSE Continue([m EXCEPT !.stack =
             Append(PopN(@, 2), wrapping_add(Popped(@, 2), Popped(@, 1)))])

\* 0x21
ExecSub(m) ==
    IF Len(m.stack) < 2 THEN Underflow(m)
    ELSE Continue([m EXCEPT !.stack =
             Append(PopN(@, 2), wrapping_sub(Popped(@, 2), Popped(@, 1)))])

\* 0x24
ExecNot(m) ==
    IF Len(m.stack) < 1 THEN Underflow(m)
    ELSE Continue([m EXCEPT !.stack =
             Append(PopN(@, 1), IF Popped(@, 1) = 0 THEN 1 ELSE 0)])

\* 0x25
ExecLt(m) ==
    IF Len(m.stack) < 2 THEN Underflow(m)
    ELSE Continue([m EXCEPT !.stack =
             Append(PopN(@, 2), IF Popped(@, 2) < Popped(@, 1) THEN 1 ELSE 0)])

\* 0x30
ExecJmp(m, imm) ==
    IF ~SliceOk(m.memory, m.ip, WordBytes) THEN Panic(m)
    ELSE Continue([m EXCEPT !.ip = imm])

\* 0x31
ExecJz(m, imm) ==
    IF ~SliceOk(m.memory, m.ip, WordBytes) THEN Panic(m)
    ELSE LET m2 == [m EXCEPT !.ip = @ + WordBytes] IN
         IF Len(m2.stack) < 1 THEN Underflow(m2)
         ELSE Continue([m2 EXCEPT !.stack = Pop(@),
                                  !.ip = IF Top(m2.stack) = 0 THEN imm ELSE @])

\* A CALL that records the address of its immediate as the return address.
CallFrameAtImm(m) == <<m.ip, m.bp>>

\* The frame a CALL pushes: the address after its immediate, and bp.
CallFrame(m) == <<m.ip + WordBytes, m.bp>>

\* 0x40
ExecCall(m, imm) ==
    IF ~SliceOk(m.memory, m.ip, WordBytes) THEN Panic(m)
    ELSE Continue([m EXCEPT !.call_stack = Append(@, CallFrame(m)),
                            !.bp = m.sp, !.ip = imm])

\* A RET that restores the saved bp into sp and keeps the callee's bp.
RetRestoreIntoSp(m, f) ==
    [m EXCEPT !.call_stack = Pop(@), !.sp = f[2], !.bp = m.bp, !.ip = f[1]]

\* What RET restores from the popped frame f = <<ret_ip, old_bp>>.
RetRestore(m, f) ==
    [m EXCEPT !.call_stack = Pop(@), !.sp = m.bp, !.bp = f[2], !.ip = f[1]]

\* 0x42
ExecRet(m) ==
    IF Len(m.call_stack) > 0 THEN Continue(RetRestore(m, Top(m.call_stack)))
    ELSE [m EXCEPT !.result = "Ok_false"]

\* 0x50
ExecGetbp(m) == Continue([m EXCEPT !.stack = Append(@, m.bp)])

\* 0x60
ExecLload(m, imm, chk) ==
    IF ~SliceOk(m.memory, m.ip, WordBytes) THEN Panic(m)
    ELSE LET m2 == [m EXCEPT !.ip = @ + WordBytes]
             target == Wrap(m.bp + imm)
         IN  IF (chk /\ Ovf(m.bp, imm)) \/ ~SliceOk(m.memory, target, WordBytes)
             THEN Panic(m2)
             ELSE Continue([m2 EXCEPT !.stack =
                      Append(@, from_le_bytes(Slice(m.memory, target, WordBytes)))])

\* The sp high-water mark after a store of a word at target.
HighWater(m, target) ==
    IF target + WordBytes > m.sp THEN target + WordBytes ELSE m.sp

\* 0x61
ExecLstore(m, imm, chk) ==
    IF ~SliceOk(m.memory, m.ip, WordBytes) THEN Panic(m)
    ELSE LET m2 == [m EXCEPT !.ip = @ + WordBytes]
             target == Wrap(m.bp + imm)
         IN  IF Len(m2.stack) < 1 THEN Underflow(m2)
             ELSE LET m3 == [m2 EXCEPT !.stack = Pop(@)] IN
                  IF (chk /\ Ovf(m.bp, imm))
                        \/ ~SliceOk(m.memory, target, WordBytes)
                  THEN Panic(m3)
                  ELSE Continue([m3 EXCEPT
                           !.memory = CopyIn(@, target, to_le_bytes(Top(m2.stack))),
                           !.sp = HighWater(m, target)])

\* 0x62
ExecMload(m) ==
    IF Len(m.stack) < 1 THEN Underflow(m)
    ELSE LET addr == Top(m.stack)
             m2 == [m EXCEPT !.stack = Pop(@)]
         IN  IF ~SliceOk(m.memory, addr, WordBytes) THEN Panic(m2)
             ELSE Continue([m2 EXCEPT !.stack =
                      Append(@, from_le_bytes(Slice(m.memory, addr, WordBytes)))])

\* 0x63
ExecMstore(m) ==
    IF Len(m.stack) < 2 THEN Underflow(m)
    ELSE LET addr == Popped(m.stack, 1)
             val == Popped(m.stack, 2)
             m2 == [m EXCEPT !.stack = PopN(@, 2)]
         IN  IF ~SliceOk(m.memory, addr, WordBytes) THEN Panic(m2)
             ELSE Continue([m2 EXCEPT !.memory = CopyIn(@, addr, to_le_bytes(val))])

\* 0x70
ExecMload8(m) ==
    IF Len(m.stack) < 1 THEN Underflow(m)
    ELSE LET addr == Top(m.stack)
             m2 == [m EXCEPT !.stack = Pop(@)]
         IN  IF ~SliceOk(m.memory, addr, 1) THEN Panic(m2)
             ELSE Continue([m2 EXCEPT !.stack = Append(@, At(m.memory, addr))])

\* 0x71
ExecMstore8(m) ==
    IF Len(m.stack) < 2 THEN Underflow(m)
    ELSE LET addr == Popped(m.stack, 1)
             val == Popped(m.stack, 2)
             m2 == [m EXCEPT !.stack = PopN(@, 2)]
         IN  IF ~SliceOk(m.memory, addr, 1) THEN Panic(m2)
             ELSE Continue([m2 EXCEPT !.memory = CopyIn(@, addr, <<val % ByteMod>>)])

\* ------------------------------------------------------------------ syscalls
\* Each operator takes the machine after SYSCALL has popped the service id.

\* The NUL-terminated name OPEN reads at addr: it stops at a zero byte or
\* at the end of memory.
RECURSIVE CStr(_, _)
CStr(mem, i) ==
    IF i < Len(mem) /\ At(mem, i) # 0 THEN <<At(mem, i)>> \o CStr(mem, i + 1)
    ELSE <<>>

\* An OPEN that creates no file.
VfsEnsureNone(files, name) == files

\* vfs with name present: an absent name is inserted with no bytes.
VfsEnsure(files, name) ==
    IF name \in DOMAIN files THEN files ELSE (name :> <<>>) @@ files

\* An OPEN that numbers a descriptor by the size of the table.
OpenFdCount(m) == Cardinality(DOMAIN m.fds)

\* The fd number OPEN hands out.
OpenFd(m) == m.next_fd

\* syscall 1
SysOpen(m, chk) ==
    IF Len(m.stack) < 1 THEN Underflow(m)
    ELSE LET addr == Top(m.stack)
             m2 == [m EXCEPT !.stack = Pop(@)]
             name == CStr(m.memory, addr)
             fd == OpenFd(m)
         IN  IF chk /\ m.next_fd + 1 >= WordMod THEN Panic(m2)
             ELSE Continue([m2 EXCEPT
                      !.next_fd = (m.next_fd + 1) % WordMod,
                      !.vfs = VfsEnsure(@, name),
                      !.fds = (fd :> <<name, 0>>) @@ @,
                      !.stack = Append(@, fd)])

\* The copy loop of READ from iteration i on: mem is memory so far.  The
\* loop ends at the first byte that is past the file or past memory.
RECURSIVE ReadLoop(_, _, _, _, _, _, _)
ReadLoop(mem, file, pos, buf, len, i, chk) ==
    IF i >= len THEN [memory |-> mem, n |-> i, panic |-> FALSE]
    ELSE IF chk /\ Ovf(pos, i) THEN [memory |-> mem, n |-> i, panic |-> TRUE]
    ELSE IF ~(Wrap(pos + i) < Len(file)) THEN [memory |-> mem, n |-> i, panic |-> FALSE]
    ELSE IF chk /\ Ovf(buf, i) THEN [memory |-> mem, n |-> i, panic |-> TRUE]
    ELSE IF ~(Wrap(buf + i) < Len(mem)) THEN [memory |-> mem, n |-> i, panic |-> FALSE]
    ELSE ReadLoop(CopyIn(mem, Wrap(buf + i), <<file[Wrap(pos + i) + 1]>>),
                  file, pos, buf, len, i + 1, chk)

\* syscall 2
SysRead(m, chk) ==
    IF Len(m.stack) < 3 THEN Underflow(m)
    ELSE LET fd == Popped(m.stack, 1)
             buf == Popped(m.stack, 2)
             len == Popped(m.stack, 3)
             m2 == [m EXCEPT !.stack = PopN(@, 3)]
         IN  IF fd \notin DOMAIN m.fds
             THEN Continue([m2 EXCEPT !.stack = Append(@, 0)])
             ELSE LET name == m.fds[fd][1]
                      pos == m.fds[fd][2]
                      r == ReadLoop(m.memory, m.vfs[name], pos, buf, len, 0, chk)
                  IN  IF r.panic THEN Panic([m2 EXCEPT !.memory = r.memory])
                      ELSE Continue([m2 EXCEPT
                               !.memory = r.memory,
                               !.fds[fd] = <<name, Wrap(pos + r.n)>>,
                               !.stack = Append(@, r.n)])

\* One byte b written to a file that is not stdout, at cursor position p:
\* it overwrites the byte at p when there is one and is appended otherwise.
PutAt(file, p, b) ==
    IF p < Len(file) THEN [file EXCEPT ![p + 1] = b] ELSE Append(file, b)

\* The copy loop of WRITE from iteration i on: file is the file so far.  A
\* byte of the buffer that lies outside memory is skipped.
RECURSIVE WriteLoop(_, _, _, _, _, _, _, _)
WriteLoop(mem, file, name, pos, buf, len, i, chk) ==
    IF i >= len THEN [file |-> file, panic |-> FALSE]
    ELSE IF chk /\ Ovf(buf, i) THEN [file |-> file, panic |-> TRUE]
    ELSE IF ~(Wrap(buf + i) < Len(mem))
         THEN WriteLoop(mem, file, name, pos, buf, len, i + 1, chk)
    ELSE IF name = StdoutPath
         THEN WriteLoop(mem, Append(file, At(mem, Wrap(buf + i))),
                        name, pos, buf, len, i + 1, chk)
    ELSE IF chk /\ Ovf(pos, i) THEN [file |-> file, panic |-> TRUE]
    ELSE WriteLoop(mem, PutAt(file, Wrap(pos + i), At(mem, Wrap(buf + i))),
                   name, pos, buf, len, i + 1, chk)

\* A WRITE that advances the cursor on every path.
WriteCursorAlways(name, pos, len) == Wrap(pos + len)

\* The cursor after a WRITE of len through an fd at pos of the file name.
WriteCursor(name, pos, len) ==
    IF name # StdoutPath THEN Wrap(pos + len) ELSE pos

\* syscall 3
SysWrite(m, chk) ==
    IF Len(m.stack) < 3 THEN Underflow(m)
    ELSE LET fd == Popped(m.stack, 1)
             buf == Popped(m.stack, 2)
             len == Popped(m.stack, 3)
             m2 == [m EXCEPT !.stack = PopN(@, 3)]
         IN  IF fd \notin DOMAIN m.fds
             THEN Continue([m2 EXCEPT !.stack = Append(@, 0)])
             ELSE LET name == m.fds[fd][1]
                      pos == m.fds[fd][2]
                      r == WriteLoop(m.memory, m.vfs[name], name, pos, buf, len, 0, chk)
                      m3 == [m2 EXCEPT !.vfs[name] = r.file]
                  IN  IF r.panic \/ (chk /\ name # StdoutPath /\ Ovf(pos, len))
                      THEN Panic(m3)
                      ELSE Continue([m3 EXCEPT
                               !.fds[fd] = <<name, WriteCursor(name, pos, len)>>,
                               !.stack = Append(@, len)])

\* syscall 4: the popped word is read as an i64.
SysSbrk(m, chk) ==
    IF Len(m.stack) < 1 THEN Underflow(m)
    ELSE LET v == Top(m.stack)
             m2 == [m EXCEPT !.stack = Pop(@)]
             neg == v >= WordMod \div 2
             dec == WordMod - v
         IN  IF ~neg
             THEN IF chk /\ Ovf(m.brk, v) THEN Panic(m2)
                  ELSE Continue([m2 EXCEPT !.brk = Wrap(m.brk + v),
                                           !.stack = Append(@, m.brk)])
             ELSE IF chk /\ (v = WordMod \div 2 \/ dec > m.brk) THEN Panic(m2)
                  ELSE Continue([m2 EXCEPT !.brk = Wrap(m.brk - dec + USizeMod),
                                           !.stack = Append(@, m.brk)])

\* 0x80
ExecSyscall(m, chk) ==
    IF Len(m.stack) < 1 THEN Underflow(m)
    ELSE LET sys_num == Top(m.stack)
             m2 == [m EXCEPT !.stack = Pop(@)]
         IN  CASE sys_num = SYS_OPEN -> SysOpen(m2, chk)
               [] sys_num = SYS_READ -> SysRead(m2, chk)
               [] sys_num = SYS_WRITE -> SysWrite(m2, chk)
               [] sys_num = SYS_SBRK -> SysSbrk(m2, chk)
               [] OTHER -> Continue([m2 EXCEPT !.stack = Append(@, 0)])

\* Machine::step on machine m when the bytes at ip encode opcode op with
\* immediate imm.
Exec(m, op, imm, chk) ==
    IF ~SliceOk(m.memory, m.ip, 1) THEN Panic(m)
    ELSE LET m1 == [m EXCEPT !.ip = @ + 1] IN
         CASE op = HALT -> ExecHalt(m1)
           [] op = PUSH -> ExecPush(m1, imm)
           [] op = ADD -> ExecAdd(m1)
           [] op = SUB -> ExecSub(m1)
           [] op = NOT -> ExecNot(m1)
           [] op = LT -> ExecLt(m1)
           [] op = JMP -> ExecJmp(m1, imm)
           [] op = JZ -> ExecJz(m1, imm)
           [] op = CALL -> ExecCall(m1, imm)
           [] op = RET -> ExecRet(m1)
           [] op = GETBP -> ExecGetbp(m1)
           [] op = LLOAD -> ExecLload(m1, imm, chk)
           [] op = LSTORE -> ExecLstore(m1, imm, chk)
           [] op = MLOAD -> ExecMload(m1)
           [] op = MSTORE -> ExecMstore(m1)
           [] op = MLOAD8 -> ExecMload8(m1)
           [] op = MSTORE8 -> ExecMstore8(m1)
           [] op = SYSCALL -> ExecSyscall(m1, chk)
           [] OTHER -> [m1 EXCEPT !.result = "Err"]

\* ------------------------------------------------------------------ abi::vm::Machine
\* The second interpreter, src/crates/abi/src/vm.rs: a value stack, ip and the
\* program bytes.  status is what the last step returned: "Running", "Halted",
\* "Syscall" (with sys_id), an "Err_..." value, or "panic".

\* Machine::new(program)
AbiNew(program) ==
    [stack |-> <<>>, ip |-> 0, program |-> program, status |-> "none", sys_id |-> 0]

\* The sum Add pushes: a + b on u64, which a build with overflow checks
\* refuses (ok = FALSE) and one without wraps.
AbiSum(a, b, chk) == [ok |-> ~(chk /\ a + b >= WordMod), val |-> (a + b) % WordMod]

\* 0x10 Push, after the opcode fetch
AbiPush(a) ==
    IF a.ip + WordBytes > Len(a.program) THEN [a EXCEPT !.status = "Err_Segfault"]
    ELSE [a EXCEPT !.stack = Append(@, from_le_bytes(Slice(a.program, a.ip, WordBytes))),
                   !.ip = @ + WordBytes, !.status = "Running"]

\* 0x20 Add: each pop that fails returns the error after the pops before it.
AbiAdd(a, chk) ==
    IF Len(a.stack) = 0 THEN [a EXCEPT !.status = "Err_Underflow"]
    ELSE IF Len(a.stack) = 1
         THEN [a EXCEPT !.stack = <<>>, !.status = "Err_Underflow"]
    ELSE LET sum == AbiSum(Popped(a.stack, 2), Popped(a.stack, 1), chk)
             a2 == [a EXCEPT !.stack = PopN(@, 2)]
         IN  IF ~sum.ok THEN [a2 EXCEPT !.status = "panic"]
             ELSE [a2 EXCEPT !.stack = Append(@, sum.val), !.status = "Running"]

\* 0xF0 Syscall
AbiSyscall(a) ==
    IF Len(a.stack) = 0 THEN [a EXCEPT !.status = "Err_Underflow"]
    ELSE [a EXCEPT !.stack = Pop(@), !.status = "Syscall", !.sys_id = Top(a.stack)]

\* Machine::step of the abi machine: opcodes 0x00 Halt, 0x01 NoOp, 0x10 Push,
\* 0x20 Add, 0xF0 Syscall.
AbiStep(a, chk) ==
    IF a.ip >= Len(a.program) THEN [a EXCEPT !.status = "Halted"]
    ELSE LET op == a.program[a.ip + 1]
             a1 == [a EXCEPT !.ip = @ + 1]
         IN  CASE op = 0 -> [a1 EXCEPT !.status = "Halted"]
               [] op = 1 -> [a1 EXCEPT !.status = "Running"]
               [] op = 16 -> AbiPush(a1)
               [] op = 32 -> AbiAdd(a1, chk)
               [] op = 240 -> AbiSyscall(a1)
               [] OTHER -> [a1 EXCEPT !.status = "Err_UnknownOpcode"]

\* ------------------------------------------------------------------ bounds

\* The longest file, the largest cursor, the largest next_fd, the deepest
\* value stack and call stack a run of the model builds.
MaxFileLen == 2
MaxPos == 3
MaxNextFd == 5
MaxStack == 4
MaxCalls == 2

\* The bytes the host types.
Keys == {66, 67}

\* The machine r stays within the bounds of the model.
Bounded(r) ==
    /\ Len(r.stack) <= MaxStack
    /\ Len(r.call_stack) <= MaxCalls
    /\ r.next_fd <= MaxNextFd
    /\ \A n \in DOMAIN r.vfs : Len(r.vfs[n]) <= MaxFileLen
    /\ \A f \in DOMAIN r.fds : r.fds[f][2] <= MaxPos

\* ------------------------------------------------------------------ construction

Zeros(n) == [i \in 1..n |-> 0]

\* Machine::new() with a memory of n bytes whose frames start at base and
\* whose heap starts at heap.
New(n, base, heap) ==
    [memory |-> Zeros(n), stack |-> <<>>, call_stack |-> <<>>,
     ip |-> 0, bp |-> base, sp |-> base,
     vfs |-> (StdinPath :> <<>>) @@ (StdoutPath :> <<>>),
     fds |-> (0 :> <<StdinPath, 0>>) @@ (1 :> <<StdoutPath, 0>>),
     next_fd |-> 3, brk |-> heap, result |-> "none"]

\* The machine's fields take the values of record r.
Becomes(r) ==
    /\ memory' = r.memory
    /\ stack' = r.stack
    /\ call_stack' = r.call_stack
    /\ ip' = r.ip
    /\ bp' = r.bp
    /\ sp' = r.sp
    /\ vfs' = r.vfs
    /\ fds' = r.fds
    /\ next_fd' = r.next_fd
    /\ brk' = r.brk
    /\ result' = r.result

StartsUnit(r, a, n, u) ==
    /\ memory = r.memory
    /\ stack = r.stack
    /\ call_stack = r.call_stack
    /\ ip = r.ip
    /\ bp = r.bp
    /\ sp = r.sp
    /\ vfs = r.vfs
    /\ fds = r.fds
    /\ next_fd = r.next_fd
    /\ brk = r.brk
    /\ result = r.result
    /\ sent = <<>>
    /\ got0 = <<>>
    /\ wrote = <<>>
    /\ abi = a
    /\ cycles = n
    /\ called = FALSE
    /\ src = u.src
    /\ source = u.source
    /\ cc_data = u.data

\* The host has no program to compile or to assemble.
NoUnit == [src |-> "", source |-> <<>>, data |-> <<>>]

StartsFor(r, a, n) == StartsUnit(r, a, n, NoUnit)

\* The host is in no tick call; every tick it makes is tick(1).
StartsWith(r, a) == StartsFor(r, a, 0)

\* No abi machine runs beside the machine: it holds no program.
Starts(r) == StartsWith(r, AbiNew(<<>>))

\* ------------------------------------------------------------------ operations

\* The instruction the bytes at ip encode, outside the code section.
OpAt(mem, a) == IF SliceOk(mem, a, 1) THEN At(mem, a) ELSE HALT
ImmAt(mem, a) ==
    IF SliceOk(mem, a + 1, WordBytes)
    THEN from_le_bytes(Slice(mem, a + 1, WordBytes)) ELSE 0

\* The bytes a READ on fd 0 copied into memory in the step from m to r with
\* instruction op (none for any other step).
Delivered(m, r, op) ==
    IF /\ op = SYSCALL /\ Len(m.stack) >= 4 /\ Popped(m.stack, 1) = SYS_READ
       /\ Popped(m.stack, 2) = 0 /\ 0 \in DOMAIN m.fds /\ r.result = "Ok_true"
    THEN [i \in 1..Top(r.stack) |-> At(r.memory, Wrap(Popped(m.stack, 3) + i - 1))]
    ELSE <<>>

\* The bytes of mem[buf .. buf+len] that lie inside memory.
InMemory(mem, buf, len) ==
    [i \in 1..(IF buf + len <= Len(mem) THEN len
               ELSE IF buf < Len(mem) THEN Len(mem) - buf ELSE 0) |-> mem[buf + i]]

\* The record of the step from m to r with instruction op when it is a WRITE
\* through an open fd: the fd's path and cursor, the length asked for and the
\* bytes of the buffer; no record is kept of a WRITE to /dev/stdin or
\* /dev/stdout.  Any other step keeps the record.
Written(m, r, op) ==
    IF /\ op = SYSCALL /\ Len(m.stack) >= 4 /\ Popped(m.stack, 1) = SYS_WRITE
       /\ Popped(m.stack, 2) \in DOMAIN m.fds /\ r.result = "Ok_true"
    THEN IF m.fds[Popped(m.stack, 2)][1] \in {StdinPath, StdoutPath} THEN <<>>
         ELSE <<m.fds[Popped(m.stack, 2)][1], m.fds[Popped(m.stack, 2)][2],
                Popped(m.stack, 4),
                InMemory(m.memory, Popped(m.stack, 3), Popped(m.stack, 4))>>
    ELSE wrote

\* The instructions the fetch at ip may find: one of menu inside the code
\* section [0, code_len), and what memory holds outside it.
Fetched(menu, code_len) ==
    IF ip < code_len THEN menu ELSE {<<OpAt(memory, ip), ImmAt(memory, ip)>>}

\* One Machine::step, as an iteration of DREInstance::tick's loop runs it
\* (tick(1) when no longer call is in progress): the instruction at ip
\* is one of menu inside the code section [0, code_len) and what memory
\* holds outside it.  A panic ends the instance; again tells whether the host
\* calls tick after a step that returned false or an error.
Tick(menu, code_len, again) ==
    /\ result # "panic"
    /\ again \/ result \in {"none", "Ok_true"}
    /\ \E ins \in Fetched(menu, code_len), chk \in BOOLEAN :
          LET r == Exec(Cur, ins[1], ins[2], chk) IN
          /\ Bounded(r)
          /\ Becomes(r)
          /\ got0' = got0 \o Delivered(Cur, r, ins[1])
          /\ wrote' = Written(Cur, r, ins[1])
          /\ sent' = sent
          /\ abi' = abi
          /\ cycles' = IF cycles > 0 THEN cycles - 1 ELSE cycles
          /\ called' = (called \/ Len(r.call_stack) > Len(call_stack))
          /\ UNCHANGED <<src, source, cc_data>>

\* DREInstance::send_input(key)
SendInput ==
    /\ result # "panic"
    /\ \E key \in Keys :
          /\ Len(vfs[StdinPath]) < MaxFileLen
          /\ vfs' = IF StdinPath \in DOMAIN vfs
                    THEN [vfs EXCEPT ![StdinPath] = Append(@, key)] ELSE vfs
          /\ sent' = Append(sent, key)
    /\ UNCHANGED <<memory, stack, call_stack, ip, bp, sp, fds, next_fd, brk,
                   result, got0, wrote, abi, cycles, called, src, source, cc_data>>

\* DREInstance::read_output(): the bytes of /dev/stdout, which it empties.
ReadOutput ==
    /\ result # "panic"
    /\ vfs' = IF StdoutPath \in DOMAIN vfs /\ vfs[StdoutPath] # <<>>
              THEN [vfs EXCEPT ![StdoutPath] = <<>>] ELSE vfs
    /\ UNCHANGED <<memory, stack, call_stack, ip, bp, sp, fds, next_fd, brk,
                   result, sent, got0, wrote, abi, cycles, called, src, source, cc_data>>

\* ------------------------------------------------------------------ programs

InstrLen == 1 + WordBytes
Size(ins) == IF HasImm(ins[1]) THEN InstrLen ELSE 1

\* What the code section holds at ip: an instruction of cands that ends
\* inside the section, and the zero padding after the code (HALT) when none does.
Code(cands, code_len) ==
    LET fit == {ins \in cands : ip + Size(ins) <= code_len} IN
    IF fit = {} THEN {<<HALT, 0>>} ELSE fit

Pushes(S) == {<<PUSH, x>> : x \in S}

\* ---- programs that make syscalls
\* The code MiniCC emits for syscall(1, name), syscall(2, fd, buf, len) and
\* syscall(3, fd, buf, len) pushes the arguments last to first, then the
\* service id, then SYSCALL; JZ to the next instruction discards a result.
\* names, lens, bufs and fdset are the arguments the programs pass.
SyscallMenu(names, lens, bufs, fdset, code_len) ==
    LET d == Len(stack) IN
    Code(CASE d = 0 -> Pushes(lens \cup names)
           [] d = 1 /\ stack[1] \in names -> Pushes({SYS_OPEN})
           [] d = 1 /\ stack[1] \notin names ->
                  Pushes(bufs) \cup {<<JZ, ip + InstrLen>>}
           [] d = 2 /\ stack[1] \in names -> {<<SYSCALL, 0>>}
           [] d = 2 /\ stack[1] \notin names -> Pushes(fdset)
           [] d = 3 -> Pushes({SYS_READ, SYS_WRITE})
           [] OTHER -> {<<SYSCALL, 0>>},
         code_len)

\* The bytes of calls syscalls, each but the last followed by the JZ.
SyscallCodeLen(calls) == calls + (4 * calls - 1) * InstrLen

\* The data segment: the string literals "/dev/stdout", "t" and "A" with their
\* NUL bytes.
Literals == StdoutPath \o <<0, 116, 0, 65, 0>>

\* Machine::new() and Machine::load of an image with code_len bytes of code
\* and the literals after them, as DREInstance::new does.
Image(code_len) ==
    [New(code_len + Len(Literals), (code_len + Len(Literals)) \div 256,
         (code_len + Len(Literals)) \div 2)
        EXCEPT !.memory = CopyIn(@, code_len, Literals)]

\* ---- up to VfsCalls syscalls on any fd, with the host typing and draining
VfsCalls == 3
VfsCodeLen == SyscallCodeLen(VfsCalls)
VfsMemLen == VfsCodeLen + Len(Literals)

NameAddrs == {VfsCodeLen, VfsCodeLen + Len(StdoutPath) + 1}
Bufs == {VfsMemLen - 2, VfsMemLen - 1, VfsMemLen}
Lens == 0..MaxFileLen
Fds == {0, 1} \cup (3..(MaxNextFd - 1))

VfsMenu == SyscallMenu(NameAddrs, Lens, Bufs, Fds, VfsCodeLen)

InitVfs == Starts(Image(VfsCodeLen))

TickVfs == Tick(VfsMenu, VfsCodeLen, FALSE)

NextVfs == TickVfs \/ SendInput \/ ReadOutput

SpecVfs == InitVfs /\ [][NextVfs]_vars

\* ---- up to EchoCalls syscalls on the file "t" and on stdout
EchoCalls == 4
EchoCodeLen == SyscallCodeLen(EchoCalls)
EchoMemLen == EchoCodeLen + Len(Literals)

EchoNames == {EchoCodeLen + Len(StdoutPath) + 1}
EchoBufs == {EchoMemLen - 4, EchoMemLen - 1}
EchoLens == 1..MaxFileLen
EchoFds == {1} \cup (3..(MaxNextFd - 1))

EchoMenu == SyscallMenu(EchoNames, EchoLens, EchoBufs, EchoFds, EchoCodeLen)

InitEcho == Starts(Image(EchoCodeLen))

TickEcho == Tick(EchoMenu, EchoCodeLen, FALSE)

NextEcho == TickEcho

SpecEcho == InitEcho /\ [][NextEcho]_vars

\* ---- programs that call, return and use memory
\* The image: a code section of two instruction slots; the frames start
\* right after it and memory ends CpuFrames words later.  The slot at address 0
\* holds any instruction; whatever follows it jumps back to address 0, so a run
\* is any sequence of instructions.
CpuCodeLen == 2 * InstrLen
CpuFrames == 2
CpuMemLen == CpuCodeLen + CpuFrames * WordBytes
CpuStack == 2

\* The words a program of this family keeps on the value stack: the flags and
\* the address of the last byte of memory.
CpuVals == {0, 1, CpuMemLen - 1}
CpuOffs == {0, WordBytes, WordMod - WordBytes}
CpuDests == {0, CpuMemLen + 1}

\* Any instruction but GETBP and SYSCALL; 255 stands for the bytes that are no opcode.
\* A store through an address on the stack is offered when the address is not
\* in the code section.
CpuMenu ==
    Code(IF ip # 0 THEN {<<JMP, 0>>}
         ELSE {<<op, 0>> : op \in {HALT, ADD, SUB, NOT, LT, RET, MLOAD, MLOAD8, 255}}
              \cup (IF Len(stack) < CpuStack
                    THEN Pushes(CpuVals \ {1}) \cup {<<LLOAD, x>> : x \in CpuOffs}
                    ELSE {})
              \cup (IF stack = <<>> \/ Top(stack) >= CpuCodeLen
                    THEN {<<MSTORE, 0>>, <<MSTORE8, 0>>}
                    ELSE {})
              \cup {<<LSTORE, x>> : x \in CpuOffs}
              \cup {<<op, x>> : op \in {JMP, JZ, CALL}, x \in CpuDests},
         CpuCodeLen)

InitCpu == Starts(New(CpuMemLen, CpuCodeLen, CpuMemLen))

TickCpu ==
    /\ Tick(CpuMenu, CpuCodeLen, FALSE)
    /\ \A i \in 1..Len(stack') : stack'[i] \in CpuVals

NextCpu == TickCpu

SpecCpu == InitCpu /\ [][NextCpu]_vars

\* ------------------------------------------------------------------ properties

Min(a, b) == IF a < b THEN a ELSE b
IsPrefix(s, t) == Len(s) <= Len(t) /\ \A i \in 1..Len(s) : s[i] = t[i]

\* The step taken is Machine::step executing instruction ins.
Stepped(ins) == \E chk \in BOOLEAN : Becomes(Exec(Cur, ins[1], ins[2], chk))

\* The step taken is a SYSCALL with service id on top of a stack of depth words.
SyscallStep(id, depth) ==
    /\ Len(stack) = depth
    /\ Top(stack) = id
    /\ Stepped(<<SYSCALL, 0>>)

\* Instruction ins, fetched at ip, makes a memory access whose byte range is
\* not inside [0, memory.len()).
OutOfRange(ins) ==
    \/ ip >= Len(memory)
    \/ HasImm(ins[1]) /\ ip + 1 + WordBytes > Len(memory)
    \/ ins[1] = LLOAD /\ Wrap(bp + ins[2]) + WordBytes > Len(memory)
    \/ ins[1] = LSTORE /\ Len(stack) >= 1
          /\ Wrap(bp + ins[2]) + WordBytes > Len(memory)
    \/ ins[1] = MLOAD /\ Len(stack) >= 1 /\ Top(stack) + WordBytes > Len(memory)
    \/ ins[1] = MSTORE /\ Len(stack) >= 2 /\ Top(stack) + WordBytes > Len(memory)
    \/ ins[1] = MLOAD8 /\ Len(stack) >= 1 /\ Top(stack) >= Len(memory)
    \/ ins[1] = MSTORE8 /\ Len(stack) >= 2 /\ Top(stack) >= Len(memory)

\* C1: a step whose instruction makes a memory access outside memory (the
\* fetch at ip, the immediate, a word at bp+off, a word or a byte at a popped
\* address; the last byte of memory is in range for a byte and out of range
\* for a word) returns an error value and leaves memory as it was.
C1_SegmentationFault ==
    [][\A ins \in Fetched(CpuMenu, CpuCodeLen) :
          (Stepped(ins) /\ OutOfRange(ins))
             => (result' = "Err" /\ memory' = memory)]_vars

\* C2: sp is never below bp.
C2_SpAboveBp == sp >= bp

\* A call is active whose frame starts above the caller's, and the callee has
\* stored a local.
C2_CalleeFrame ==
    /\ Len(call_stack) = 1
    /\ bp > call_stack[1][2]
    /\ sp > bp

\* C3: a CALL records the address A where its immediate ends and the bp B of
\* that moment; while a call is active bp is not below its B; the matching RET
\* sets ip to A and bp to B and leaves the value stack as it is; no other
\* step touches the records.
C3_CallRet ==
    [][/\ \A k \in 1..Len(call_stack') : bp' >= call_stack'[k][2]
       /\ Len(call_stack') = Len(call_stack) + 1
             => call_stack' = Append(call_stack, <<ip + InstrLen, bp>>)
       /\ Len(call_stack') = Len(call_stack) - 1
             => /\ ip' = Top(call_stack)[1]
                /\ bp' = Top(call_stack)[2]
                /\ stack' = stack
                /\ call_stack' = Pop(call_stack)
       /\ Len(call_stack') \in {Len(call_stack) - 1, Len(call_stack),
                                Len(call_stack) + 1}
       /\ Len(call_stack') = Len(call_stack) => call_stack' = call_stack]_vars

\* A call made after the caller stored a local has returned with a value on
\* the stack: sp is back where the callee's frame began, at the word the
\* callee stored.
C3_Returned ==
    /\ call_stack = <<>>
    /\ result = "Ok_true"
    /\ ip = InstrLen
    /\ stack # <<>>
    /\ bp = CpuCodeLen
    /\ sp = CpuCodeLen + WordBytes
    /\ At(memory, sp) # 0

\* C4: an OPEN returns a descriptor that is at least 3, above every
\* descriptor of the table and new to it, at cursor 0; no step removes a
\* descriptor or changes the path of one, those of fds 0 and 1 included.
C4_FreshFd ==
    [][/\ (SyscallStep(SYS_OPEN, 2) /\ result' = "Ok_true")
             => LET fd == Top(stack') IN
                /\ fd >= 3
                /\ \A g \in DOMAIN fds : fd > g
                /\ DOMAIN fds' = DOMAIN fds \cup {fd}
                /\ fds'[fd][2] = 0
       /\ \A g \in DOMAIN fds : g \in DOMAIN fds' /\ fds'[g][1] = fds[g][1]
       /\ fds'[0][1] = StdinPath /\ fds'[1][1] = StdoutPath]_vars

\* Two OPENs have returned 3 and then 4.
C4_TwoOpens ==
    /\ {3, 4} \subseteq DOMAIN fds
    /\ stack = <<4>>
    /\ result = "Ok_true"

\* C5: between steps the cursor of every descriptor is at most the length of
\* the file at its path.
C5_CursorInFile ==
    result # "panic" => \A f \in DOMAIN fds : fds[f][2] <= Len(vfs[fds[f][1]])

\* C6: a second OPEN of a path gives a new descriptor at cursor 0; after a
\* WRITE of n bytes through a descriptor at cursor 0 of a file that is neither
\* /dev/stdin nor /dev/stdout, a READ of n bytes through a descriptor at
\* cursor 0 of that file returns n and copies exactly the written bytes.
C6_RoundTrip ==
    [][/\ (SyscallStep(SYS_OPEN, 2) /\ result' = "Ok_true")
             => /\ Top(stack') \notin DOMAIN fds
                /\ fds'[Top(stack')] = <<CStr(memory, stack[1]), 0>>
       /\ (/\ SyscallStep(SYS_READ, 4)
           /\ stack[3] \in DOMAIN fds
           /\ wrote # <<>>
           /\ fds[stack[3]] = <<wrote[1], 0>>
           /\ wrote[1] \notin {StdinPath, StdoutPath}
           /\ wrote[2] = 0
           /\ stack[1] = wrote[3])
             => /\ result' = "Ok_true"
                /\ Top(stack') = stack[1]
                /\ Len(wrote[4]) = stack[1]
                /\ InMemory(memory', stack[2], stack[1]) = wrote[4]]_vars

\* C7: a READ of len bytes through an open descriptor at cursor c of a file
\* of length L copies the min(len, L-c) bytes at c to buf, pushes that count
\* and moves the cursor by it; at c = L it changes neither memory nor cursor.
C7_ReadCount ==
    [][(SyscallStep(SYS_READ, 4) /\ stack[3] \in DOMAIN fds)
          => LET path == fds[stack[3]][1]
                 c == fds[stack[3]][2]
                 L == Len(vfs[path])
                 k == Min(stack[1], L - c)
             IN  /\ result' = "Ok_true"
                 /\ Top(stack') = k
                 /\ fds'[stack[3]] = <<path, c + k>>
                 /\ InMemory(memory', stack[2], k) = SubSeq(vfs[path], c + 1, c + k)
                 /\ c = L => (memory' = memory /\ fds' = fds)]_vars

\* C8: a WRITE through a descriptor of /dev/stdout adds the bytes of the
\* buffer after the bytes stdout holds and leaves the cursor where it is; a
\* WRITE through any descriptor keeps what stdout holds as a prefix.
C8_StdoutAppendOnly ==
    [][(SyscallStep(SYS_WRITE, 4) /\ stack[3] \in DOMAIN fds)
          => /\ IsPrefix(vfs[StdoutPath], vfs'[StdoutPath])
             /\ (fds[stack[3]][1] = StdoutPath /\ result' = "Ok_true")
                   => /\ vfs'[StdoutPath] =
                            vfs[StdoutPath] \o InMemory(memory, stack[2], stack[1])
                      /\ fds'[stack[3]] = fds[stack[3]]]_vars

\* Two WRITEs through descriptors of stdout, the second through one that
\* OPEN returned: stdout holds the byte of the first before that of the
\* second, and both cursors are 0.
C8_TwoAppends ==
    /\ vfs[StdoutPath] = <<0, 65>>
    /\ 3 \in DOMAIN fds
    /\ fds[3] = <<StdoutPath, 0>>
    /\ fds[1] = <<StdoutPath, 0>>
    /\ stack = <<1>>

\* C9: a step of the machine leaves /dev/stdin as it is; send_input appends
\* its byte to it.
C9_StdinReadOnly ==
    [][IF sent' # sent
       THEN vfs'[StdinPath] = Append(vfs[StdinPath], sent'[Len(sent')])
       ELSE vfs'[StdinPath] = vfs[StdinPath]]_vars

\* C10: the bytes the READs on fd 0 delivered are, in order, a prefix of the
\* bytes send_input was given; a READ on fd 0 with nothing buffered returns 0.
C10_StdinFifo ==
    [][/\ IsPrefix(got0', sent')
       /\ (/\ SyscallStep(SYS_READ, 4)
           /\ stack[3] = 0
           /\ fds[0][2] >= Len(vfs[fds[0][1]]))
             => (result' = "Ok_true" /\ Top(stack') = 0)]_vars

\* ---- the program PUSH a; PUSH b; ADD; HALT on both interpreters
\* The bytes test_vm_add builds, with SUB in place of ADD as well; the root
\* machine fetches them from its memory, the abi machine from its program.
AddWords == {0, 1, 10, 20, WordMod \div 2, WordMod - 1}

AddProgram(a, b, op) ==
    <<PUSH>> \o to_le_bytes(a) \o <<PUSH>> \o to_le_bytes(b) \o <<op, HALT>>

AddLen == 2 * InstrLen + 2

InitAdd ==
    \E a \in AddWords, b \in AddWords, op \in {ADD, SUB} :
        StartsWith([New(AddLen, AddLen, AddLen) EXCEPT !.memory = AddProgram(a, b, op)],
                   AbiNew(AddProgram(a, b, op)))

TickAdd == Tick({}, 0, FALSE)

\* One Machine::step of the abi machine, in the loop of test_vm_add, which
\* ends at Halted, at a syscall and at an error.
AbiTick ==
    /\ abi.status \in {"none", "Running"}
    /\ \E chk \in BOOLEAN : abi' = AbiStep(abi, chk)
    /\ UNCHANGED <<memory, stack, call_stack, ip, bp, sp, vfs, fds, next_fd, brk,
                   result, sent, got0, wrote, cycles, called, src, source, cc_data>>

NextAdd == TickAdd \/ AbiTick

SpecAdd == InitAdd /\ [][NextAdd]_vars

\* C12: PUSH a; PUSH b; ADD; HALT halts with the stack [(a+b) mod 2^64] on the
\* root machine and on the abi machine, and neither faults; with SUB the root
\* machine halts with [(a-b) mod 2^64].
C12_WrappingAdd ==
    LET a == ImmAt(memory, 0)
        b == ImmAt(memory, InstrLen)
        op == At(memory, 2 * InstrLen)
        sum == IF op = ADD THEN (a + b) % WordMod ELSE (a - b + WordMod) % WordMod
    IN  /\ result \notin {"panic", "Err"}
        /\ result = "Ok_false" => stack = <<sum>>
        /\ op = ADD => /\ abi.status \in {"none", "Running", "Halted"}
                       /\ abi.status = "Halted" => abi.stack = <<sum>>

\* The number of stack words an instruction pops.
Operands(op) ==
    CASE op \in {ADD, SUB, LT, MSTORE, MSTORE8} -> 2
      [] op \in {NOT, JZ, LSTORE, MLOAD, MLOAD8, SYSCALL} -> 1
      [] OTHER -> 0

\* C13: a step whose instruction needs more operands than the stack holds
\* returns an error value (the StackUnderflow kind) and the machine stops;
\* it is no crash of the host.
C13_StackUnderflow ==
    [][\A ins \in Fetched(CpuMenu, CpuCodeLen) :
          (Stepped(ins) /\ Operands(ins[1]) > Len(stack))
             => result' = "Err"]_vars

\* ---- programs that call services by id, halt, and are ticked again
\* Up to SvcCalls calls syscall(id, arg) as MiniCC emits them: the argument,
\* the service id, SYSCALL, and a JZ that discards a word.  The ids are OPEN
\* for the name "t", SBRK for a count, and ids 5 and 9, for which step has no
\* arm.  HALT and the undefined opcode 255 may stand between two calls, and
\* the host calls tick again after a step that returned false or an error.
SvcCalls == 3
SvcCodeLen == SvcCalls * (3 * InstrLen + 1)

SvcNames == {SvcCodeLen + Len(StdoutPath) + 1}
SvcCounts == {1}
SvcUnknown == {5, 9}

SvcMenu ==
    LET d == Len(stack) IN
    Code(CASE d = 0 -> Pushes(SvcNames \cup SvcCounts) \cup {<<HALT, 0>>, <<255, 0>>}
           [] d = 1 -> Pushes(SvcUnknown \cup (IF stack[1] \in SvcNames
                                              THEN {SYS_OPEN} ELSE {SYS_SBRK}))
                       \cup {<<JZ, ip + InstrLen>>}
           [] OTHER -> {<<SYSCALL, 0>>, <<JZ, ip + InstrLen>>},
         SvcCodeLen)

InitSvc == Starts(Image(SvcCodeLen))

TickSvc == Tick(SvcMenu, SvcCodeLen, TRUE)

NextSvc == TickSvc

SpecSvc == InitSvc /\ [][NextSvc]_vars

\* C14: a SYSCALL whose service id is not implemented stops the machine with
\* an error (the UnknownSyscall fault), pushes no result, and leaves the VFS
\* and the descriptor table as they were.
C14_UnknownSyscall ==
    [][\A depth \in 1..MaxStack :
          SyscallStep(9, depth)
             => /\ result' = "Err"
                /\ stack' = Pop(stack)
                /\ vfs' = vfs
                /\ fds' = fds]_vars

\* C20: SYSCALL with service id 5 (EXEC) and the address of a path: when the
\* path names a file of the VFS the machine restarts at ip = 0 with both
\* stacks empty and the VFS and the descriptor table as they were, and no
\* value is returned; when it names none the step is a fault.
C20_Exec ==
    [][\A depth \in 2..MaxStack :
          (SyscallStep(5, depth) /\ stack[depth - 1] \in SvcNames)
             => IF CStr(memory, stack[depth - 1]) \in DOMAIN vfs
                THEN /\ ip' = 0
                     /\ stack' = <<>>
                     /\ call_stack' = <<>>
                     /\ vfs' = vfs
                     /\ fds' = fds
                ELSE result' = "Err"]_vars

\* C15: once a step has reported HALT or an error, no later step or tick
\* executes an instruction or changes the machine: it stays halted.
C15_HaltIsFinal ==
    [][(result = "Ok_false" \/ result = "Err")
          => (UNCHANGED <<memory, stack, call_stack, ip, bp, sp, vfs, fds,
                          next_fd, brk, result>>)]_vars

\* ---- one run under an instruction quota
\* The host makes one call tick(g), g in 1..GasMax, on a program of loops:
\* PUSH 0 or 1, JZ back to 0, JMP 0 (the empty loop while(1){}), HALT.
GasMax == 16
GasCodeLen == 3 * InstrLen

GasMenu ==
    Code(IF stack = <<>>
         THEN Pushes({0, 1}) \cup {<<JMP, 0>>, <<HALT, 0>>}
         ELSE {<<JZ, 0>>},
         GasCodeLen)

InitGas == \E g \in 1..GasMax : StartsFor(Image(GasCodeLen), AbiNew(<<>>), g)

\* One iteration of the loop of tick(g).
TickGas ==
    /\ cycles > 0
    /\ Tick(GasMenu, GasCodeLen, FALSE)

NextGas == TickGas

SpecGas == InitGas /\ [][NextGas]_vars

\* C16: a run that has used up its instruction quota without halting has
\* ended with a fault (the ResourceExhaustion kind), which tells it from a
\* run that halted and from one that may go on.
C16_ResourceExhaustion == cycles = 0 => result # "Ok_true"

\* ------------------------------------------------------------------ images

\* The header of a BEF image is HeaderLen bytes: the magic in bytes 0..4 and
\* the code size in bytes 8..12, both u32, least significant byte first.
HeaderLen == 16
Magic == 11604455
\* The image offset and the memory address of the data segment (0x2000).
DataBase == 32

u32_to_le_bytes(v) == [i \in 1..4 |-> (v \div Pow(ByteMod, i - 1)) % ByteMod]
u32_from_le_bytes(b) == LeSum(b, 4)

\* The image compile_bef lays out for the assembled code and the data: the
\* header, the code, zeros up to base, the image offset of the data segment,
\* when the code ends before it, the data.
CompileBefAt(code, data, base) ==
    LET bin == u32_to_le_bytes(Magic) \o Zeros(4) \o u32_to_le_bytes(Len(code))
               \o Zeros(4) \o code
    IN  bin \o Zeros(IF Len(bin) < base THEN base - Len(bin) ELSE 0) \o data

CompileBef(code, data) == CompileBefAt(code, data, DataBase)

\* Machine::load(d).  It returns nothing ("none"); a slice that is out of
\* range panics, the copy of the data after the copy of the code.
LoadAt(m, d, base) ==
    IF ~SliceOk(d, 8, 4) THEN Panic(m)
    ELSE LET sz == u32_from_le_bytes(Slice(d, 8, 4)) IN
         IF ~SliceOk(m.memory, 0, sz) \/ ~SliceOk(d, HeaderLen, sz) THEN Panic(m)
         ELSE LET m1 == [m EXCEPT !.memory = CopyIn(@, 0, Slice(d, HeaderLen, sz))] IN
              IF Len(d) > base
              THEN IF ~SliceOk(m1.memory, base, Len(d) - base) THEN Panic(m1)
                   ELSE [m1 EXCEPT
                           !.memory = CopyIn(@, base,
                                             Slice(d, base, Len(d) - base)),
                           !.result = "none"]
              ELSE [m1 EXCEPT !.result = "none"]

Load(m, d) == LoadAt(m, d, DataBase)

\* ---- a host that loads images into a machine and runs them
\* Memory ends LoadRoom bytes after DataBase; the frames start at half of
\* DataBase, as 4096 is half of 0x2000.
LoadRoom == 4
LoadMemLen == DataBase + LoadRoom
LoadBase == DataBase \div 2

\* A program that stores a local, calls itself and so moves ip, both stacks,
\* bp and sp.
Recurse == <<PUSH, 5, 0, LSTORE, 0, 0, CALL, 0, 0>>

\* Code shorter and longer than DataBase - HeaderLen bytes.
LoadCodes == {<<HALT>>, Recurse, Recurse \o Recurse}
\* Data that fits in memory after DataBase, and data one byte too long.
LoadDatas == {<<>>, <<65>>, <<65, 66>>, [i \in 1..(LoadRoom + 1) |-> 65]}

Assembled == {CompileBef(code, data) : code \in LoadCodes, data \in LoadDatas}

\* The images a host may pass: the assembled ones, one of them with another
\* magic, cut before its code size and cut inside its header, and one whose
\* header announces more code than the image holds.
LoadImages ==
    Assembled
      \cup {[CompileBef(Recurse, <<65>>) EXCEPT ![1] = 0],
            SubSeq(CompileBef(<<HALT>>, <<>>), 1, 10),
            SubSeq(CompileBef(<<HALT>>, <<>>), 1, HeaderLen - 1),
            [CompileBef(<<HALT>>, <<>>) EXCEPT ![9] = DataBase]}

InitLoad == Starts(New(LoadMemLen, LoadBase, LoadMemLen \div 2))

LoadImage ==
    /\ result # "panic"
    /\ \E d \in LoadImages : Becomes(Load(Cur, d))
    /\ UNCHANGED <<sent, got0, wrote, abi, cycles, called, src, source, cc_data>>

TickLoad == Tick({}, 0, FALSE)

NextLoad == LoadImage \/ TickLoad

SpecLoad == InitLoad /\ [][NextLoad]_vars

\* The step taken is load(d).
Loaded(d) == Becomes(Load(Cur, d))

\* The four checks of an image: the header is whole, the magic matches, the
\* code ends before DataBase and the data ends inside memory.
ValidImage(d) ==
    /\ Len(d) >= HeaderLen
    /\ u32_from_le_bytes(Slice(d, 0, 4)) = Magic
    /\ HeaderLen + u32_from_le_bytes(Slice(d, 8, 4)) <= DataBase
    /\ Len(d) <= Len(memory)

\* C17: load of an image that fails one of the four checks reports an error
\* (InvalidBinary) and leaves memory and the whole machine as they were.
C17_InvalidBinary ==
    [][\A d \in LoadImages :
          (Loaded(d) /\ ~ValidImage(d))
             => /\ result' = "Err"
                /\ UNCHANGED <<memory, stack, call_stack, ip, bp, sp, vfs, fds,
                               next_fd, brk>>]_vars

\* C18: after load of the image compile_bef makes of code and data, memory
\* holds the code from address 0 and the data from DataBase, also when the
\* code is longer than DataBase - HeaderLen bytes.
C18_LoadRoundTrip ==
    [][\A code \in LoadCodes, data \in LoadDatas :
          (Loaded(CompileBef(code, data)) /\ DataBase + Len(data) <= Len(memory))
             => /\ Slice(memory', 0, Len(code)) = code
                /\ Slice(memory', DataBase, Len(data)) = data]_vars

\* C19: after load of a valid image, on a machine in any state, ip is 0, the
\* value stack and the call stack are empty, bp and sp are the frame base,
\* and the VFS and the descriptor table are as before.
C19_LoadResets ==
    [][\A d \in LoadImages :
          (Loaded(d) /\ ValidImage(d))
             => /\ ip' = 0
                /\ stack' = <<>>
                /\ call_stack' = <<>>
                /\ bp' = LoadBase
                /\ sp' = LoadBase
                /\ vfs' = vfs
                /\ fds' = fds]_vars

\* C27: RET, fetched inside memory, on an empty call stack ends the run normally, with the value
\* stack as it was, when no CALL has pushed onto the call stack so far; once
\* one has, it is a fault (CallStackUnderflow).
C27_RetOnEmpty ==
    [][(call_stack = <<>> /\ ip < Len(memory) /\ Stepped(<<RET, 0>>))
          => IF called
             THEN result' = "Err"
             ELSE result' = "Ok_false" /\ stack' = stack]_vars

\* C28: while no step has reported a fault, ip is at most memory.len(), also
\* after a JMP, a taken JZ or a CALL to an address beyond memory.
C28_IpInRange ==
    result \in {"none", "Ok_true", "Ok_false"} => ip <= Len(memory)

\* C29: a WRITE of len bytes at buf through an open descriptor at cursor c of
\* a file other than /dev/stdout, of length L, writes the k bytes of the
\* buffer that lie in memory (k = len when all do): the file holds them at
\* [c, c+k), keeps every other byte it had and has length max(L, c+k); the
\* cursor moves by k and k is pushed.
C29_WriteAtCursor ==
    [][(/\ SyscallStep(SYS_WRITE, 4)
        /\ stack[3] \in DOMAIN fds
        /\ fds[stack[3]][1] # StdoutPath)
          => LET path == fds[stack[3]][1]
                 c == fds[stack[3]][2]
                 L == Len(vfs[path])
                 w == InMemory(memory, stack[2], stack[1])
                 k == Len(w)
             IN  /\ result' = "Ok_true"
                 /\ Top(stack') = k
                 /\ fds'[stack[3]] = <<path, c + k>>
                 /\ Len(vfs'[path]) = IF L > c + k THEN L ELSE c + k
                 /\ SubSeq(vfs'[path], c + 1, c + k) = w
                 /\ \A i \in 1..L : (i <= c \/ i > c + k) => vfs'[path][i] = vfs[path][i]]_vars

\* ---- programs that grow and shrink the heap
\* BrkCalls times the code of `char *p = syscall(4, d); *p;` without the
\* local: PUSH d, PUSH 4, SYSCALL, MLOAD8 through the pointer returned, and a
\* JZ that discards the byte.  d is one byte, one word, -1 or the whole of
\* memory.
BrkCalls == 3
BrkCallLen == 3 * InstrLen + 2
BrkCodeLen == BrkCalls * BrkCallLen
BrkMemLen == BrkCodeLen + Len(Literals)
BrkIncs == {1, WordBytes, WordMod - 1, BrkMemLen}

BrkMenu ==
    LET at == ip % BrkCallLen IN
    Code(CASE at = 0 -> Pushes(BrkIncs)
           [] at = InstrLen -> Pushes({SYS_SBRK})
           [] at = 2 * InstrLen -> {<<SYSCALL, 0>>}
           [] at = 2 * InstrLen + 1 -> {<<MLOAD8, 0>>}
           [] OTHER -> {<<JZ, ip + InstrLen>>},
         BrkCodeLen)

InitBrk == Starts(Image(BrkCodeLen))

TickBrk == Tick(BrkMenu, BrkCodeLen, FALSE)

NextBrk == TickBrk

SpecBrk == InitBrk /\ [][NextBrk]_vars

\* The increment a word stands for, read as an i64.
Signed(v) == IF v >= WordMod \div 2 THEN v - WordMod ELSE v

\* C26: SBRK with the signed increment d pushes the brk before the call and
\* sets brk to that value plus d; brk stays inside [0, memory.len()].
C26_Sbrk ==
    [][SyscallStep(SYS_SBRK, 2)
          => /\ result' = "Ok_true"
             /\ Top(stack') = brk
             /\ brk' = brk + Signed(stack[1])
             /\ brk' >= 0
             /\ brk' <= Len(memory)]_vars

\* ------------------------------------------------------------------ assembler

\* str::split_whitespace: the maximal runs of characters of s that are not
\* white space, in order.
IsSpace(c) == c \in {" ", "\n", "\t", "\r"}

\* The k-th smallest member of a set of numbers.
Nth(S, k) == CHOOSE x \in S : Cardinality({y \in S : y < x}) = k - 1

\* The characters where a run starts and where one ends.
RunStarts(s) ==
    {i \in 1..Len(s) : ~IsSpace(SubSeq(s, i, i)) /\ (i = 1 \/ IsSpace(SubSeq(s, i - 1, i - 1)))}
RunEnds(s) ==
    {i \in 1..Len(s) :
        ~IsSpace(SubSeq(s, i, i)) /\ (i = Len(s) \/ IsSpace(SubSeq(s, i + 1, i + 1)))}

split_whitespace(s) ==
    [k \in 1..Cardinality(RunStarts(s)) |->
        SubSeq(s, Nth(RunStarts(s), k), Nth(RunEnds(s), k))]

ends_with_colon(t) == t # "" /\ SubSeq(t, Len(t), Len(t)) = ":"

RECURSIVE trim_end_colons(_)
trim_end_colons(t) ==
    IF ends_with_colon(t) THEN trim_end_colons(SubSeq(t, 1, Len(t) - 1)) ELSE t

\* str::parse::<u64>: the value of a decimal numeral that fits a word; any
\* other token is an error.
Digits == "0123456789"
IsDigit(c) == \E d \in 1..10 : SubSeq(Digits, d, d) = c
DigitOf(c) == (CHOOSE d \in 1..10 : SubSeq(Digits, d, d) = c) - 1

RECURSIVE ParseFrom(_, _)
ParseFrom(t, acc) ==
    IF t = "" THEN [ok |-> TRUE, val |-> acc]
    ELSE IF ~IsDigit(SubSeq(t, 1, 1)) \/ acc * 10 + DigitOf(SubSeq(t, 1, 1)) >= WordMod
         THEN [ok |-> FALSE, val |-> 0]
         ELSE ParseFrom(Tail(t), acc * 10 + DigitOf(SubSeq(t, 1, 1)))

parse_u64(t) == IF t = "" THEN [ok |-> FALSE, val |-> 0] ELSE ParseFrom(t, 0)

\* The mnemonics pass 1 counts with an immediate and without one.
Wide == {"PUSH", "JMP", "JZ", "LLOAD", "LSTORE", "CALL"}
Narrow == {"HALT", "ADD", "SUB", "MUL", "DIV", "LT", "RET", "GETBP", "MLOAD",
           "MSTORE", "MLOAD8", "MSTORE8", "NOT", "SYSCALL"}

\* The bytes pass 1 counts for token t: an opcode and a word, an opcode, none.
Sized(t) == IF t \in Wide THEN InstrLen ELSE IF t \in Narrow THEN 1 ELSE 0

NoLabels == [t \in {} |-> 0]

\* Pass 1 from token i on: a token that ends with ':' enters the label table
\* at the address reached, replacing an entry of the same name; every other
\* token advances the address by its size.
RECURSIVE Pass1(_, _, _, _)
Pass1(tokens, i, labels, addr) ==
    IF i > Len(tokens) THEN [labels |-> labels, addr |-> addr]
    ELSE IF ends_with_colon(tokens[i])
         THEN Pass1(tokens, i + 1,
                    [t \in DOMAIN labels \cup {trim_end_colons(tokens[i])} |->
                        IF t = trim_end_colons(tokens[i]) THEN addr ELSE labels[t]],
                    addr)
         ELSE Pass1(tokens, i + 1, labels, addr + Sized(tokens[i]))

\* The opcode byte pass 2 emits for a mnemonic.
Emitted ==
    [t \in {"HALT", "PUSH", "ADD", "SUB", "NOT", "LT", "JMP", "JZ", "CALL", "RET",
            "GETBP", "LLOAD", "LSTORE", "MLOAD", "MSTORE", "MLOAD8", "MSTORE8",
            "SYSCALL"} |->
        CASE t = "HALT" -> HALT [] t = "PUSH" -> PUSH [] t = "ADD" -> ADD
          [] t = "SUB" -> SUB [] t = "NOT" -> NOT [] t = "LT" -> LT
          [] t = "JMP" -> JMP [] t = "JZ" -> JZ [] t = "CALL" -> CALL
          [] t = "RET" -> RET [] t = "GETBP" -> GETBP [] t = "LLOAD" -> LLOAD
          [] t = "LSTORE" -> LSTORE [] t = "MLOAD" -> MLOAD [] t = "MSTORE" -> MSTORE
          [] t = "MLOAD8" -> MLOAD8 [] t = "MSTORE8" -> MSTORE8
          [] OTHER -> SYSCALL]

\* Pass 2 from token i on, code being the bytes emitted so far.  PUSH, LLOAD
\* and LSTORE take the next token as a numeral, JMP, JZ and CALL as a label;
\* a missing operand, a token that is no numeral and a label that is not in
\* the table panic.  A token with no arm emits nothing.
RECURSIVE Pass2(_, _, _, _)
Pass2(tokens, labels, i, code) ==
    IF i > Len(tokens) THEN [code |-> code, panic |-> FALSE]
    ELSE IF tokens[i] \in {"PUSH", "LLOAD", "LSTORE"}
         THEN IF i + 1 > Len(tokens) \/ ~parse_u64(tokens[i + 1]).ok
              THEN [code |-> code \o <<Emitted[tokens[i]]>>, panic |-> TRUE]
              ELSE Pass2(tokens, labels, i + 2,
                         code \o <<Emitted[tokens[i]]>>
                              \o to_le_bytes(parse_u64(tokens[i + 1]).val))
    ELSE IF tokens[i] \in {"JMP", "JZ", "CALL"}
         THEN IF i + 1 > Len(tokens) \/ tokens[i + 1] \notin DOMAIN labels
              THEN [code |-> code \o <<Emitted[tokens[i]]>>, panic |-> TRUE]
              ELSE Pass2(tokens, labels, i + 2,
                         code \o <<Emitted[tokens[i]]>>
                              \o to_le_bytes(labels[tokens[i + 1]]))
    ELSE IF tokens[i] \in DOMAIN Emitted
         THEN Pass2(tokens, labels, i + 1, code \o <<Emitted[tokens[i]]>>)
    ELSE Pass2(tokens, labels, i + 1, code)

\* The code section of an assembly text.
Assemble(text) ==
    Pass2(split_whitespace(text), Pass1(split_whitespace(text), 1, NoLabels, 0).labels,
          1, <<>>)

\* Assembler::compile_bef(source, data): the image, unless pass 2 panics.
compile_bef_at(text, bytes, base) ==
    IF Assemble(text).panic THEN [panic |-> TRUE, bin |-> <<>>]
    ELSE [panic |-> FALSE, bin |-> CompileBefAt(Assemble(text).code, bytes, base)]

compile_bef(text, bytes) == compile_bef_at(text, bytes, DataBase)

\* ---- a host that assembles a text, loads the image and runs it
\* The texts: every sequence of up to AsmMaxTokens of AsmWords, and a few
\* longer ones: the assembly of `int main() { return 118; }`, a label defined
\* twice, a label after MUL, a call and return.
AsmMaxTokens == 4
AsmWords == {"PUSH", "1", "JMP", "a", "a:", "MUL", "HALT", "CALL"}

RECURSIVE Joined(_)
Joined(tokens) ==
    IF tokens = <<>> THEN "" ELSE Head(tokens) \o "\n" \o Joined(Tail(tokens))

AsmSamples ==
    {"CALL main\nHALT\nmain:\nPUSH 118\nRET\n",
     "a: PUSH 1 a: JZ a HALT",
     "PUSH 1 PUSH 1 DIV a: JMP a",
     "CALL f HALT f: PUSH 5 RET"}

AsmTexts ==
    AsmSamples
      \cup {Joined(t) : t \in UNION {[1..n -> AsmWords] : n \in 0..AsmMaxTokens}}

AsmDatas == {<<>>, <<65>>}

InitAsm ==
    \E text \in AsmTexts, bytes \in AsmDatas :
        StartsUnit(New(LoadMemLen, LoadBase, LoadMemLen \div 2), AbiNew(<<>>), 0,
                   [src |-> "", source |-> text, data |-> bytes])

\* vm.load(&Assembler::compile_bef(source, data)) on the machine as built.
LoadBef ==
    /\ result = "none"
    /\ memory = Zeros(Len(memory))
    /\ Becomes(IF compile_bef(source, cc_data).panic THEN Panic(Cur)
               ELSE Load(Cur, compile_bef(source, cc_data).bin))
    /\ UNCHANGED <<sent, got0, wrote, abi, cycles, called, src, source, cc_data>>

TickAsm == Tick({}, 0, FALSE)

NextAsm == LoadBef \/ TickAsm

SpecAsm == InitAsm /\ [][NextAsm]_vars

\* The tokens of the text being assembled.
Tokens == split_whitespace(source)

\* C21: for every text compile_bef assembles, the number of code bytes pass 2
\* emits is the address pass 1 ends at, and is the code size in bytes 8..12
\* of the header.
C21_PassSizes ==
    ~Assemble(source).panic
       => /\ Len(Assemble(source).code) = Pass1(Tokens, 1, NoLabels, 0).addr
          /\ u32_from_le_bytes(Slice(compile_bef(source, cc_data).bin, 8, 4))
                = Len(Assemble(source).code)

\* The positions of the tokens naming the label of token j.
Definitions(j) ==
    {k \in 1..Len(Tokens) :
        ends_with_colon(Tokens[k]) /\ trim_end_colons(Tokens[k]) = trim_end_colons(Tokens[j])}

\* C22: a text that defines a label more than once is rejected: compile_bef
\* returns no image for it.
C22_DuplicateLabel ==
    (\E j \in 1..Len(Tokens) : ends_with_colon(Tokens[j]) /\ Cardinality(Definitions(j)) > 1)
       => compile_bef(source, cc_data).panic

\* The positions pass 2 reads as mnemonics or labels, not as operands, from
\* position i on.
RECURSIVE Heads(_)
Heads(i) ==
    IF i > Len(Tokens) THEN {}
    ELSE {i} \cup Heads(IF Tokens[i] \in Wide THEN i + 2 ELSE i + 1)

\* The number of code bytes pass 2 emits for the tokens before position i.
Before(i) ==
    Len(Pass2(SubSeq(Tokens, 1, i - 1), Pass1(Tokens, 1, NoLabels, 0).labels, 1, <<>>).code)

\* C30: in the code of a text compile_bef assembles, the immediate of every
\* JMP, JZ and CALL that names a label (defined once) is the offset of the
\* code emitted for what follows the definition of the label.
C30_LabelOffsets ==
    ~Assemble(source).panic
       => \A i \in Heads(1), j \in 1..Len(Tokens) :
             (/\ Tokens[i] \in {"JMP", "JZ", "CALL"}
              /\ ends_with_colon(Tokens[j])
              /\ trim_end_colons(Tokens[j]) = Tokens[i + 1]
              /\ Cardinality(Definitions(j)) = 1)
                => from_le_bytes(Slice(Assemble(source).code, Before(i) + 1, WordBytes))
                      = Before(j)

\* C23: the image compile_bef returns holds the magic in bytes 0..4, the entry
\* point 0 in bytes 4..8, the code length in bytes 8..12, the data length in
\* bytes 12..16, the code from offset HeaderLen and the data from offset
\* DataBase.
C23_ImageLayout ==
    LET bin == compile_bef(source, cc_data).bin
        code == Assemble(source).code
    IN  ~Assemble(source).panic
           => /\ u32_from_le_bytes(Slice(bin, 0, 4)) = Magic
              /\ u32_from_le_bytes(Slice(bin, 4, 4)) = 0
              /\ u32_from_le_bytes(Slice(bin, 8, 4)) = Len(code)
              /\ u32_from_le_bytes(Slice(bin, 12, 4)) = Len(cc_data)
              /\ Slice(bin, HeaderLen, Len(code)) = code
              /\ Len(bin) = DataBase + Len(cc_data)
              /\ Slice(bin, DataBase, Len(cc_data)) = cc_data

\* ------------------------------------------------------------------ compiler

\* ---- lex
\* The printable ASCII characters from the space (32) to the underscore (95)
\* and from a (97) on.
AsciiLow == " !\"#$%&'()*+,-./0123456789:;<=>?@ABCDEFGHIJKLMNOPQRSTUVWXYZ[\\]^_"
AsciiHigh == "abcdefghijklmnopqrstuvwxyz{|}~"

\* The byte of a character of a source text.
ByteOf(c) ==
    IF c = "\n" THEN 10 ELSE IF c = "\t" THEN 9 ELSE IF c = "\r" THEN 13
    ELSE IF \E i \in 1..Len(AsciiLow) : SubSeq(AsciiLow, i, i) = c
         THEN 31 + (CHOOSE i \in 1..Len(AsciiLow) : SubSeq(AsciiLow, i, i) = c)
         ELSE 96 + (CHOOSE i \in 1..Len(AsciiHigh) : SubSeq(AsciiHigh, i, i) = c)

is_alphabetic(c) == (ByteOf(c) \in 65..90) \/ (ByteOf(c) \in 97..122)
is_alphanumeric(c) == is_alphabetic(c) \/ IsDigit(c)

\* A token: its kind, and the name of an Ident, the value of a Num, the bytes
\* of a StrLit.
Tok(kind) == [k |-> kind, s |-> "", n |-> 0, b |-> <<>>]
Ident(name) == [Tok("Ident") EXCEPT !.s = name]
Num(v) == [Tok("Num") EXCEPT !.n = v]
StrLit(bytes) == [Tok("StrLit") EXCEPT !.b = bytes]

\* The tokens of one character.
Single ==
    [c \in {"{", "}", "(", ")", "[", "]", ";", ",", "+", "-", "*", "/", "&", "<"} |->
        CASE c = "{" -> "LBrace" [] c = "}" -> "RBrace" [] c = "(" -> "LParen"
          [] c = ")" -> "RParen" [] c = "[" -> "LBracket" [] c = "]" -> "RBracket"
          [] c = ";" -> "Semicolon" [] c = "," -> "Comma" [] c = "+" -> "Plus"
          [] c = "-" -> "Minus" [] c = "*" -> "Mul" [] c = "/" -> "Div"
          [] c = "&" -> "Ampersand" [] OTHER -> "Lt"]

Keywords ==
    [w \in {"int", "char", "if", "else", "while", "return", "syscall"} |->
        CASE w = "int" -> "Int" [] w = "char" -> "Char" [] w = "if" -> "If"
          [] w = "else" -> "Else" [] w = "while" -> "While"
          [] w = "return" -> "Return" [] OTHER -> "Syscall"]

\* The escapes of a string literal and the bytes they stand for.
Escapes ==
    [c \in {"n", "e", "t", "b", "\\", "\""} |->
        CASE c = "n" -> 10 [] c = "e" -> 27 [] c = "t" -> 9 [] c = "b" -> 8
          [] c = "\\" -> 92 [] OTHER -> 34]

Ch(s) == SubSeq(s, 1, 1)

\* The rest of a string literal after its opening quote: the bytes up to the
\* closing quote or the end of the text, and the text after it.
RECURSIVE LexStr(_, _)
LexStr(s, bytes) ==
    IF s = "" THEN [b |-> bytes, rest |-> s]
    ELSE IF Ch(s) = "\"" THEN [b |-> bytes, rest |-> Tail(s)]
    ELSE IF Ch(s) = "\\" /\ Len(s) > 1 /\ SubSeq(s, 2, 2) \in DOMAIN Escapes
         THEN LexStr(SubSeq(s, 3, Len(s)), bytes \o <<Escapes[SubSeq(s, 2, 2)]>>)
         ELSE LexStr(Tail(s), bytes \o <<ByteOf(Ch(s))>>)

\* The rest of a word after its first letter: the letters, digits and
\* underscores that follow it.
WordEnd(s) ==
    LET stops == {i \in 1..Len(s) :
                    ~(is_alphanumeric(SubSeq(s, i, i)) \/ SubSeq(s, i, i) = "_")}
    IN  IF stops = {} THEN Len(s) + 1 ELSE Nth(stops, 1)

LexWord(s, word) ==
    [s |-> word \o SubSeq(s, 1, WordEnd(s) - 1), rest |-> SubSeq(s, WordEnd(s), Len(s))]

\* The rest of a numeral after its first digit; ovf when n * 10 + d passes
\* the largest word.
RECURSIVE LexNum(_, _, _)
LexNum(s, n, ovf) ==
    IF s # "" /\ IsDigit(Ch(s))
    THEN LexNum(Tail(s), (n * 10 + DigitOf(Ch(s))) % WordMod,
                ovf \/ n * 10 + DigitOf(Ch(s)) >= WordMod)
    ELSE [n |-> n, ovf |-> ovf, rest |-> s]

\* The text from its first character that is not white space on.
SkipSpace(s) ==
    LET marks == {i \in 1..Len(s) : ~IsSpace(SubSeq(s, i, i))} IN
    IF marks = {} THEN "" ELSE SubSeq(s, Nth(marks, 1), Len(s))

\* One turn of the loop of lex on a text that is not empty: the tokens it
\* pushes (one, or none at white space and at a character of no token),
\* whether a numeral overflowed, and the text left.
Lexed(toks, ovf, rest) == [tokens |-> toks, ovf |-> ovf, rest |-> rest]

LexOne(s) ==
    CASE IsSpace(Ch(s)) -> Lexed(<<>>, FALSE, SkipSpace(s))
      [] Ch(s) \in DOMAIN Single -> Lexed(<<Tok(Single[Ch(s)])>>, FALSE, Tail(s))
      [] Len(s) > 1 /\ SubSeq(s, 1, 2) = "==" ->
            Lexed(<<Tok("Eq")>>, FALSE, SubSeq(s, 3, Len(s)))
      [] Ch(s) = "=" -> Lexed(<<Tok("Assign")>>, FALSE, Tail(s))
      [] Ch(s) = "\"" ->
            Lexed(<<StrLit(LexStr(Tail(s), <<>>).b)>>, FALSE, LexStr(Tail(s), <<>>).rest)
      [] IsDigit(Ch(s)) ->
            LET d == LexNum(Tail(s), DigitOf(Ch(s)), FALSE) IN
            Lexed(<<Num(d.n)>>, d.ovf, d.rest)
      [] is_alphabetic(Ch(s)) ->
            LET w == LexWord(Tail(s), Ch(s)) IN
            Lexed(<<IF w.s \in DOMAIN Keywords THEN Tok(Keywords[w.s]) ELSE Ident(w.s)>>,
                  FALSE, w.rest)
      [] OTHER -> Lexed(<<>>, FALSE, Tail(s))

\* Up to n turns of the loop from s on.
RECURSIVE LexRun(_, _)
LexRun(s, n) ==
    IF n = 0 \/ s = "" THEN Lexed(<<>>, FALSE, s)
    ELSE LET one == LexOne(s)
             more == LexRun(one.rest, n - 1)
         IN  Lexed(one.tokens \o more.tokens, one.ovf \/ more.ovf, more.rest)

\* lex(src) from s on, the loop taken LexChunk turns at a time: the tokens
\* and EOF, and whether a numeral overflowed.
LexChunk == 12

RECURSIVE LexFrom(_)
LexFrom(s) ==
    IF s = "" THEN Lexed(<<Tok("EOF")>>, FALSE, s)
    ELSE LET run == LexRun(s, LexChunk)
             more == LexFrom(run.rest)
         IN  Lexed(run.tokens \o more.tokens, run.ovf \/ more.ovf, more.rest)

lex(text) == LexFrom(text)

\* ---- the parser of expressions
\* peek is tokens[pos]; consume moves pos on unless the token is EOF.
Adv(tokens, pos) == IF tokens[pos].k = "EOF" THEN pos ELSE pos + 1

\* The expressions.
Number(v) == [t |-> "Number", n |-> v]
StringLit(bytes) == [t |-> "StringLit", b |-> bytes]
Variable(name) == [t |-> "Variable", s |-> name]
Binary(l, op, r) == [t |-> "Binary", l |-> l, op |-> op, r |-> r]
Call(name, args) == [t |-> "Call", s |-> name, args |-> args]
Syscall(args) == [t |-> "Syscall", args |-> args]
Deref(e) == [t |-> "Deref", e |-> e]
AddrOf(name) == [t |-> "AddrOf", s |-> name]

\* What a parse function leaves: the expression and the position reached, or
\* a panic.
Parsed(e, pos) == [e |-> e, pos |-> pos, panic |-> FALSE]
SyntaxError(pos) == [e |-> Number(0), pos |-> pos, panic |-> TRUE]

RECURSIVE parse_eq(_, _), parse_rel(_, _), parse_sum(_, _), SumLoop(_, _),
          parse_term(_, _), TermLoop(_, _), parse_unary(_, _), parse_primary(_, _),
          ArgLoop(_, _, _)

parse_expr(tokens, pos) == parse_eq(tokens, pos)

\* The binary expression of left, op and what right has read.
OnLeft(left, op, right) == [right EXCEPT !.e = Binary(left, op, @)]

\* parse_eq after its left operand.
EqRest(tokens, left) ==
    IF left.panic \/ tokens[left.pos].k # "Eq" THEN left
    ELSE OnLeft(left.e, "Eq", parse_rel(tokens, Adv(tokens, left.pos)))

parse_eq(tokens, pos) == EqRest(tokens, parse_rel(tokens, pos))

\* parse_rel after its left operand.
RelRest(tokens, left) ==
    IF left.panic \/ tokens[left.pos].k # "Lt" THEN left
    ELSE OnLeft(left.e, "Lt", parse_sum(tokens, Adv(tokens, left.pos)))

parse_rel(tokens, pos) == RelRest(tokens, parse_sum(tokens, pos))

\* The loop of parse_sum, left being the sum read so far.
SumLoop(tokens, left) ==
    IF left.panic \/ tokens[left.pos].k \notin {"Plus", "Minus"} THEN left
    ELSE SumLoop(tokens, OnLeft(left.e, tokens[left.pos].k,
                                parse_term(tokens, Adv(tokens, left.pos))))

parse_sum(tokens, pos) == SumLoop(tokens, parse_term(tokens, pos))

\* The loop of parse_term, left being the product read so far.
TermLoop(tokens, left) ==
    IF left.panic \/ tokens[left.pos].k \notin {"Mul", "Div"} THEN left
    ELSE TermLoop(tokens, OnLeft(left.e, tokens[left.pos].k,
                                 parse_unary(tokens, Adv(tokens, left.pos))))

parse_term(tokens, pos) == TermLoop(tokens, parse_unary(tokens, pos))

parse_unary(tokens, pos) ==
    IF tokens[pos].k = "Mul"
    THEN [parse_unary(tokens, Adv(tokens, pos)) EXCEPT !.e = Deref(@)]
    ELSE IF tokens[pos].k = "Ampersand"
    THEN IF tokens[pos + 1].k = "Ident"
         THEN Parsed(AddrOf(tokens[pos + 1].s), pos + 2)
         ELSE SyntaxError(Adv(tokens, pos + 1))
    ELSE parse_primary(tokens, pos)

\* The loop of the arguments after the expression e, args being those before
\* it: a comma goes on to the next one.
ArgNext(tokens, args, e) ==
    IF e.panic THEN [args |-> args, pos |-> e.pos, panic |-> TRUE]
    ELSE IF tokens[e.pos].k = "Comma"
         THEN ArgLoop(tokens, Adv(tokens, e.pos), args \o <<e.e>>)
         ELSE [args |-> args \o <<e.e>>, pos |-> e.pos, panic |-> FALSE]

ArgLoop(tokens, pos, args) == ArgNext(tokens, args, parse_expr(tokens, pos))

\* The token after what r has read is consumed, as the closing parenthesis.
Closed(tokens, r) == IF r.panic THEN r ELSE [r EXCEPT !.pos = Adv(tokens, @)]

\* The arguments after an opening parenthesis, and the token after them
\* consumed as the closing one.
Args(tokens, pos) ==
    IF tokens[pos].k = "RParen" THEN [args |-> <<>>, pos |-> pos + 1, panic |-> FALSE]
    ELSE Closed(tokens, ArgLoop(tokens, pos, <<>>))

AsSyscall(a) == IF a.panic THEN SyntaxError(a.pos) ELSE Parsed(Syscall(a.args), a.pos)
AsCall(name, a) == IF a.panic THEN SyntaxError(a.pos) ELSE Parsed(Call(name, a.args), a.pos)

parse_primary(tokens, pos) ==
    CASE tokens[pos].k = "Num" -> Parsed(Number(tokens[pos].n), pos + 1)
      [] tokens[pos].k = "StrLit" -> Parsed(StringLit(tokens[pos].b), pos + 1)
      [] tokens[pos].k = "Syscall" ->
            IF tokens[pos + 1].k # "LParen" THEN SyntaxError(Adv(tokens, pos + 1))
            ELSE AsSyscall(Args(tokens, pos + 2))
      [] tokens[pos].k = "Ident" ->
            IF tokens[pos + 1].k = "LParen" THEN AsCall(tokens[pos].s, Args(tokens, pos + 2))
            ELSE Parsed(Variable(tokens[pos].s), pos + 1)
      [] tokens[pos].k = "LParen" -> Closed(tokens, parse_expr(tokens, pos + 1))
      [] OTHER -> SyntaxError(Adv(tokens, pos))

\* ---- MiniCC
\* MiniCC::new(source) on the tokens of the source: the fields of the
\* compiler but the tokens, the address base of the data segment (8192), and
\* whether it has panicked.  locals maps a name to its VarInfo.
NoLocals == [x \in {} |-> [offset |-> 0, is_byte |-> FALSE, is_ptr |-> FALSE]]

MiniCCNew(base) ==
    [pos |-> 1, locals |-> NoLocals, local_offset |-> 0, label_count |-> 0,
     data |-> <<>>, out |-> "", base |-> base, panic |-> FALSE]

Peek(tokens, st) == tokens[st.pos].k
Consume(tokens, st) == [st EXCEPT !.pos = Adv(tokens, @)]
Emit(st, text) == [st EXCEPT !.out = @ \o text]
Aborted(st) == [st EXCEPT !.panic = TRUE]

\* locals.insert(name, VarInfo { offset: local_offset, .. }); local_offset
\* is advanced by the caller.
Insert(st, name, is_byte, is_ptr) ==
    [st EXCEPT !.locals =
        [x \in DOMAIN @ \cup {name} |->
            IF x = name
            THEN [offset |-> st.local_offset, is_byte |-> is_byte, is_ptr |-> is_ptr]
            ELSE @[x]]]

\* new_label counts a label; LabelOf is the label of a count.
Labelled(st) == [st EXCEPT !.label_count = @ + 1]
LabelOf(n) == "L" \o ToString(n)

\* A dereferenced expression is a byte pointer when it is a variable declared
\* char *.
IsBytePtr(st, e) ==
    /\ e.t = "Variable"
    /\ e.s \in DOMAIN st.locals
    /\ st.locals[e.s].is_ptr
    /\ st.locals[e.s].is_byte

Reverse(q) == [i \in 1..Len(q) |-> q[Len(q) + 1 - i]]

\* text is emitted unless st has panicked.
Then(st, text) == IF st.panic THEN st ELSE Emit(st, text)

RECURSIVE gen_expr(_, _), GenAll(_, _)

\* gen_expr for each expression of args in turn.
GenAll(st, args) ==
    IF args = <<>> \/ st.panic THEN st
    ELSE GenAll(gen_expr(st, Head(args)), Tail(args))

gen_expr(st, e) ==
    IF st.panic THEN st
    ELSE CASE e.t = "Number" -> Emit(st, "PUSH " \o ToString(e.n) \o "\n")
      [] e.t = "StringLit" ->
            Emit([st EXCEPT !.data = @ \o e.b \o <<0>>],
                 "PUSH " \o ToString(st.base + Len(st.data)) \o "\n")
      [] e.t = "Variable" ->
            IF e.s \notin DOMAIN st.locals THEN Aborted(st)
            ELSE Emit(st, "LLOAD " \o ToString(st.locals[e.s].offset) \o "\n")
      [] e.t = "AddrOf" ->
            IF e.s \notin DOMAIN st.locals THEN Aborted(st)
            ELSE Emit(st, "GETBP\nPUSH " \o ToString(st.locals[e.s].offset) \o "\nADD\n")
      [] e.t = "Deref" ->
            Then(gen_expr(st, e.e), IF IsBytePtr(st, e.e) THEN "MLOAD8\n" ELSE "MLOAD\n")
      [] e.t = "Call" -> Then(GenAll(st, e.args), "CALL " \o e.s \o "\n")
      [] e.t = "Syscall" -> Then(GenAll(st, Reverse(e.args)), "SYSCALL\n")
      [] OTHER ->
            Then(gen_expr(gen_expr(st, e.l), e.r),
                 CASE e.op = "Plus" -> "ADD\n"
                   [] e.op = "Minus" -> "SUB\n"
                   [] e.op = "Eq" -> "SUB\nNOT\n"
                   [] e.op = "Lt" -> "LT\n"
                   [] OTHER -> "")

\* gen_expr of the expression e that parse_expr has read.
GenParsed(st, e) ==
    IF e.panic THEN Aborted(st) ELSE gen_expr([st EXCEPT !.pos = e.pos], e.e)

\* parse_expr at the position of st, then gen_expr of what it read.
ParseGen(tokens, st) == GenParsed(st, parse_expr(tokens, st.pos))

\* text is emitted and a token consumed unless st has panicked.
Ended(tokens, st, text) == IF st.panic THEN st ELSE Consume(tokens, Emit(st, text))

\* A '*' at the position of st is consumed.
AfterStar(tokens, st) == IF Peek(tokens, st) = "Mul" THEN Consume(tokens, st) ELSE st

RECURSIVE compile_stmt(_, _), Block(_, _)

\* while peek is neither '}' nor EOF { compile_stmt }, then consume.
Block(tokens, st) ==
    IF st.panic THEN st
    ELSE IF Peek(tokens, st) \in {"RBrace", "EOF"} THEN Consume(tokens, st)
    ELSE Block(tokens, compile_stmt(tokens, st))

\* A declaration from its initialiser on: the value of `= expr` is stored at
\* local_offset, which then moves on by a word, and a token is consumed.
DeclStored(st) ==
    IF st.panic THEN st ELSE Emit(st, "LSTORE " \o ToString(st.local_offset) \o "\n")

DeclEnd(tokens, st) ==
    IF st.panic THEN st
    ELSE Consume(tokens, [st EXCEPT !.local_offset = @ + WordBytes])

DeclInit(tokens, st) ==
    IF Peek(tokens, st) # "Assign" THEN DeclEnd(tokens, st)
    ELSE DeclEnd(tokens, DeclStored(ParseGen(tokens, Consume(tokens, st))))

\* A declaration from its name on.
DeclNamed(tokens, is_byte, is_ptr, st) ==
    IF Peek(tokens, st) # "Ident" THEN Aborted(st)
    ELSE DeclInit(tokens, Insert(Consume(tokens, st), tokens[st.pos].s, is_byte, is_ptr))

DeclStmt(tokens, st) ==
    DeclNamed(tokens, Peek(tokens, st) = "Char", Peek(tokens, Consume(tokens, st)) = "Mul",
              AfterStar(tokens, Consume(tokens, st)))

\* if: the else branch from its block on, and its end.
ElseEnd(l_end, st) == Then(st, l_end \o ":\n")

ElseBody(tokens, l_false, st) ==
    ElseEnd(LabelOf(st.label_count),
            Block(tokens,
                  Consume(tokens,
                          Emit(st, "JMP " \o LabelOf(st.label_count) \o "\n"
                                     \o l_false \o ":\n"))))

\* if: after the block of the condition.
IfElse(tokens, l_false, st) ==
    IF st.panic THEN st
    ELSE IF Peek(tokens, st) # "Else" THEN Emit(st, l_false \o ":\n")
    ELSE ElseBody(tokens, l_false, Labelled(Consume(tokens, st)))

\* if: after the code of the condition.
IfThen(tokens, l_false, st) ==
    IF st.panic THEN st
    ELSE IfElse(tokens, l_false,
                Block(tokens, Consume(tokens, Emit(st, "JZ " \o l_false \o "\n"))))

\* if: after the condition e, st being at it.
IfCond(tokens, st, e) ==
    IF e.panic THEN Aborted(st)
    ELSE IfThen(tokens, LabelOf(st.label_count + 1),
                gen_expr(Labelled(Consume(tokens, [st EXCEPT !.pos = e.pos])), e.e))

IfStmt(tokens, st) ==
    IfCond(tokens, st, parse_expr(tokens, Consume(tokens, Consume(tokens, st)).pos))

\* while: after the block, after the code of the condition, after the
\* condition e.
WhileEnd(l_start, l_end, st) == Then(st, "JMP " \o l_start \o "\n" \o l_end \o ":\n")

WhileBody(tokens, l_start, l_end, st) ==
    IF st.panic THEN st
    ELSE WhileEnd(l_start, l_end,
                  Block(tokens, Consume(tokens, Emit(st, "JZ " \o l_end \o "\n"))))

WhileCond(tokens, st, e) ==
    IF e.panic THEN Aborted(st)
    ELSE WhileBody(tokens, LabelOf(st.label_count + 1), LabelOf(st.label_count + 2),
                   gen_expr(Emit(Labelled(Labelled(Consume(tokens,
                                                           [st EXCEPT !.pos = e.pos]))),
                                 LabelOf(st.label_count + 1) \o ":\n"),
                            e.e))

WhileStmt(tokens, st) ==
    WhileCond(tokens, st, parse_expr(tokens, Consume(tokens, Consume(tokens, st)).pos))

\* name = expr; after the code of expr.
Assigned(tokens, name, st) ==
    IF st.panic THEN st
    ELSE IF name \notin DOMAIN st.locals THEN Aborted(st)
    ELSE Consume(tokens, Emit(st, "LSTORE " \o ToString(st.locals[name].offset) \o "\n"))

\* name(args); after the arguments a.
Called(tokens, name, st, a) ==
    IF a.panic THEN Aborted(st)
    ELSE Ended(tokens, gen_expr([st EXCEPT !.pos = a.pos], Call(name, a.args)), "")

IdentStmt(tokens, st) ==
    IF Peek(tokens, Consume(tokens, st)) = "Assign"
    THEN Assigned(tokens, tokens[st.pos].s,
                  ParseGen(tokens, Consume(tokens, Consume(tokens, st))))
    ELSE IF Peek(tokens, Consume(tokens, st)) = "LParen"
    THEN Called(tokens, tokens[st.pos].s, st, Args(tokens, st.pos + 2))
    ELSE Consume(tokens, st)

\* *ptr = val; after the code of val and ptr, after val, after ptr.
StoreEnd(tokens, ptr, st) ==
    IF st.panic THEN st
    ELSE Consume(tokens, Emit(st, IF IsBytePtr(st, ptr) THEN "MSTORE8\n" ELSE "MSTORE\n"))

StoreVal(tokens, st, ptr, val) ==
    IF val.panic THEN Aborted(st)
    ELSE StoreEnd(tokens, ptr, gen_expr(gen_expr([st EXCEPT !.pos = val.pos], val.e), ptr))

StorePtr(tokens, st, ptr) ==
    IF ptr.panic THEN Aborted(st)
    ELSE StoreVal(tokens, st, ptr.e, parse_expr(tokens, Adv(tokens, ptr.pos)))

StoreStmt(tokens, st) == StorePtr(tokens, st, parse_unary(tokens, st.pos + 1))

compile_stmt(tokens, st) ==
    CASE Peek(tokens, st) \in {"Int", "Char"} -> DeclStmt(tokens, st)
      [] Peek(tokens, st) = "Return" -> Ended(tokens, ParseGen(tokens, Consume(tokens, st)), "RET\n")
      [] Peek(tokens, st) = "If" -> IfStmt(tokens, st)
      [] Peek(tokens, st) = "While" -> WhileStmt(tokens, st)
      [] Peek(tokens, st) = "Syscall" -> Ended(tokens, ParseGen(tokens, st), "")
      [] Peek(tokens, st) = "Ident" -> IdentStmt(tokens, st)
      [] Peek(tokens, st) = "Mul" -> StoreStmt(tokens, st)
      [] OTHER -> Consume(tokens, st)

\* The parameters of a function from the position of st on.
RECURSIVE ParamLoop(_, _)

ParamNext(tokens, st) ==
    IF Peek(tokens, st) = "Comma" THEN ParamLoop(tokens, Consume(tokens, st)) ELSE st

ParamNamed(tokens, p_byte, p_ptr, st) ==
    IF Peek(tokens, st) # "Ident" THEN Aborted(st)
    ELSE ParamNext(tokens,
                   [Insert(Consume(tokens, st), tokens[st.pos].s, p_byte, p_ptr)
                      EXCEPT !.local_offset = @ + WordBytes])

ParamLoop(tokens, st) ==
    ParamNamed(tokens, Peek(tokens, st) = "Char", Peek(tokens, Consume(tokens, st)) = "Mul",
               AfterStar(tokens, Consume(tokens, st)))

\* The prologue: LSTORE of the offset of every entry of locals, the largest
\* offset first.
RECURSIVE Prologue(_)
Prologue(offsets) ==
    IF offsets = {} THEN ""
    ELSE "LSTORE " \o ToString(Nth(offsets, Cardinality(offsets))) \o "\n"
           \o Prologue(offsets \ {Nth(offsets, Cardinality(offsets))})

RECURSIVE SkipStars(_, _)
SkipStars(tokens, st) ==
    IF Peek(tokens, st) = "Mul" THEN SkipStars(tokens, Consume(tokens, st)) ELSE st

\* compile_func after the parameters: ')', the prologue, '{', the body, '}'
\* and the return of 0.
FuncBody(tokens, st) ==
    IF st.panic THEN st
    ELSE Then(Block(tokens,
                    Consume(tokens,
                            Emit(Consume(tokens, st),
                                 Prologue({st.locals[x].offset : x \in DOMAIN st.locals})))),
              "PUSH 0\nRET\n")

\* compile_func from the name on: the name, '(' and the label, the locals
\* cleared, the parameters.
FuncNamed(tokens, st) ==
    IF Peek(tokens, st) # "Ident" THEN Aborted(st)
    ELSE FuncBody(tokens,
                  IF Peek(tokens, Consume(tokens, Consume(tokens, st))) # "RParen"
                  THEN ParamLoop(tokens,
                                 [Emit(Consume(tokens, Consume(tokens, st)),
                                       tokens[st.pos].s \o ":\n")
                                    EXCEPT !.locals = NoLocals, !.local_offset = 0])
                  ELSE [Emit(Consume(tokens, Consume(tokens, st)),
                             tokens[st.pos].s \o ":\n")
                          EXCEPT !.locals = NoLocals, !.local_offset = 0])

compile_func(tokens, st) == FuncNamed(tokens, SkipStars(tokens, Consume(tokens, st)))

\* The loop of compile: a function at int or char, any other token skipped.
RECURSIVE CompileLoop(_, _)
CompileLoop(tokens, st) ==
    IF st.panic \/ Peek(tokens, st) = "EOF" THEN st
    ELSE IF Peek(tokens, st) \in {"Int", "Char"}
         THEN CompileLoop(tokens, compile_func(tokens, st))
         ELSE CompileLoop(tokens, Consume(tokens, st))

\* MiniCC::new(text).compile() and the data it leaves, in a build that
\* checks overflow (checks) or not; base is the address of the data segment.
Compiled(lexed, base, checks) ==
    IF lexed.ovf /\ checks THEN Aborted(MiniCCNew(base))
    ELSE CompileLoop(lexed.tokens, Emit(MiniCCNew(base), "CALL main\nHALT\n"))

compile(text, base, checks) == Compiled(lex(text), base, checks)

\* ---- a host that compiles a source, assembles it, loads the image and runs it
\* The data segment is at CcDataBase (0x2000), the frames start at half of
\* it, memory ends CcRoom bytes after it and the heap starts in the middle of
\* that room.
CcDataBase == 256
CcRoom == 64
CcMemLen == CcDataBase + CcRoom
CcBase == CcDataBase \div 2
CcHeap == CcDataBase + CcRoom \div 2

\* The sources of run_suite that need no file, the source of the
\* specification's example, and sources with a loop and a branch, with a
\* string written to /dev/stdout, with a byte pointer, with a call of a
\* function that is not defined, with a syscall statement in a callee, and
\* with a syntax error.
Main118 == "int main() { return 118; }"
AddSource == "int add(int a, int b){ return a+b; } int main(){ return add(5,10); }"

CcSources ==
    {Main118,
     AddSource,
     "int main() { int *p=syscall(4,8); *p=42; return *p; }",
     "int main() { int i = 0; while (i < 2) { i = i + 1; } if (i == 2) { return 1; } else { return 0; } }",
     "int main() { syscall(3, 1, \"A\", 1); return 0; }",
     "int main() { return f(1); }",
     "int f(int a) { syscall(3, 1, \"A\", 1); return a; } int main() { return f(7); }",
     "int main() { char *b = 300; *b = 65; return *b; }",
     "int main() { return ; }"}

InitCc ==
    \E text \in CcSources :
        StartsUnit(New(CcMemLen, CcBase, CcHeap), AbiNew(<<>>), 0,
                   [src |-> text, source |-> "", data |-> <<>>])

\* MiniCC::new(src).compile(): the assembly text and the data, or a panic.
Compile ==
    /\ result = "none"
    /\ source = ""
    /\ \E checks \in BOOLEAN :
          LET cc == compile(src, CcDataBase, checks) IN
          /\ source' = IF cc.panic THEN source ELSE cc.out
          /\ cc_data' = IF cc.panic THEN cc_data ELSE cc.data
          /\ result' = IF cc.panic THEN "panic" ELSE result
    /\ UNCHANGED <<memory, stack, call_stack, ip, bp, sp, vfs, fds, next_fd, brk,
                   sent, got0, wrote, abi, cycles, called, src>>

\* vm.load(&Assembler::compile_bef(&cc.compile(), &cc.data)) on the machine as
\* built.
LoadCc ==
    /\ result = "none"
    /\ source # ""
    /\ memory = Zeros(Len(memory))
    /\ Becomes(IF compile_bef_at(source, cc_data, CcDataBase).panic THEN Panic(Cur)
               ELSE LoadAt(Cur, compile_bef_at(source, cc_data, CcDataBase).bin,
                           CcDataBase))
    /\ UNCHANGED <<sent, got0, wrote, abi, cycles, called, src, source, cc_data>>

TickCc == Tick({}, 0, FALSE)

NextCc == Compile \/ LoadCc \/ TickCc

SpecCc == InitCc /\ [][NextCc]_vars

\* The positions from i on of the tokens of toks that pass 2 reads as
\* mnemonics, and the positions of the definitions of a label.
RECURSIVE HeadsOf(_, _)
HeadsOf(toks, i) ==
    IF i > Len(toks) THEN {}
    ELSE {i} \cup HeadsOf(toks, IF toks[i] \in Wide THEN i + 2 ELSE i + 1)

DefinitionsOf(toks, label) ==
    {k \in 1..Len(toks) : ends_with_colon(toks[k]) /\ trim_end_colons(toks[k]) = label}

\* C24: in the text compile returns, the label operand of every CALL, JMP
\* and JZ is defined, as `label:`, exactly once.
C24_LabelsDefined ==
    source # ""
       => \A toks \in {Tokens} :
             \A i \in HeadsOf(toks, 1) :
                (toks[i] \in {"CALL", "JMP", "JZ"} /\ i < Len(toks))
                   => Cardinality(DefinitionsOf(toks, toks[i + 1])) = 1

\* Machine::step on machine m.
Step(m, chk) == Exec(m, OpAt(m.memory, m.ip), ImmAt(m.memory, m.ip), chk)

Running(m) == m.result \in {"none", "Ok_true"}

\* m after n steps, or after fewer when it stops.
RECURSIVE After(_, _, _)
After(m, n, chk) ==
    IF n = 0 \/ ~Running(m) THEN m ELSE After(Step(m, chk), n - 1, chk)

\* m run until its call stack is no deeper than depth, for at most CcFuel
\* steps.
CcFuel == 40

RECURSIVE Returned(_, _, _, _)
Returned(m, depth, fuel, chk) ==
    IF fuel = 0 \/ ~Running(m) \/ Len(m.call_stack) <= depth THEN m
    ELSE Returned(Step(m, chk), depth, fuel - 1, chk)

\* The number of LSTORE instructions from address a on: the prologue of the
\* function compiled at a has one for each of its parameters.
RECURSIVE PrologueLen(_, _)
PrologueLen(mem, a) ==
    IF SliceOk(mem, a, InstrLen) /\ OpAt(mem, a) = LSTORE
    THEN 1 + PrologueLen(mem, a + InstrLen) ELSE 0

\* The machine runs loaded code and is at a CALL other than the leading
\* CALL main.
AtCall ==
    /\ Running(Cur)
    /\ memory # Zeros(Len(memory))
    /\ ip > 0
    /\ SliceOk(memory, ip, InstrLen)
    /\ OpAt(memory, ip) = CALL

\* C25: at a compiled call f(a1, ..., an) of a function of n parameters, the
\* word at bp + WordBytes * (i - 1) is ai after the prologue and the n
\* argument words are off the stack; when the callee returns, the caller's
\* stack holds one word more than without the arguments; the example halts
\* with 15 on top of the stack, `return 118` in main with 118.
C25_CallingConvention ==
    /\ AtCall =>
          \A chk \in BOOLEAN :
              LET n == PrologueLen(memory, ImmAt(memory, ip)) IN
              Len(stack) >= n =>
                 /\ After(Cur, n + 1, chk).result = "Ok_true"
                 /\ Len(After(Cur, n + 1, chk).stack) = Len(stack) - n
                 /\ \A i \in 1..n :
                       from_le_bytes(Slice(After(Cur, n + 1, chk).memory,
                                           After(Cur, n + 1, chk).bp + WordBytes * (i - 1),
                                           WordBytes))
                          = Popped(stack, n + 1 - i)
                 /\ Len(Returned(Step(Cur, chk), Len(call_stack), CcFuel, chk).call_stack)
                       = Len(call_stack)
                 /\ Len(Returned(Step(Cur, chk), Len(call_stack), CcFuel, chk).stack)
                       = Len(stack) - n + 1
    /\ (src = AddSource /\ result = "Ok_false" /\ memory # Zeros(Len(memory)))
          => stack # <<>> /\ Top(stack) = 15
    /\ (src = Main118 /\ result = "Ok_false" /\ memory # Zeros(Len(memory)))
          => stack # <<>> /\ Top(stack) = 118

\* ------------------------------------------------------------------ draining stdout

\* core::str::utf8_char_width: the length of the UTF-8 sequence that starts
\* with byte b, 0 when no sequence starts with it.
utf8_char_width(b) ==
    IF b < 128 THEN 1
    ELSE IF b \in 194..223 THEN 2
    ELSE IF b \in 224..239 THEN 3
    ELSE IF b \in 240..244 THEN 4
    ELSE 0

IsCont(b) == b \in 128..191

\* Utf8Chunks's safe_get: the byte at index i of s, 0 past its end.
safe_get(s, i) == IF i <= Len(s) THEN s[i] ELSE 0

\* Whether c may follow the leading byte b of a sequence of 2 to 4 bytes.
SecondOk(b, c) ==
    CASE b = 224 -> c \in 160..191
      [] b = 237 -> c \in 128..159
      [] b = 240 -> c \in 144..191
      [] b = 244 -> c \in 128..143
      [] OTHER -> IsCont(c)

\* The chunk of s that starts at index i: a whole UTF-8 sequence, or the
\* longest beginning of one that the next byte does not continue.
Chunk(s, i) ==
    LET w == utf8_char_width(s[i]) IN
    IF w = 1 THEN [len |-> 1, valid |-> TRUE]
    ELSE IF w = 0 \/ ~SecondOk(s[i], safe_get(s, i + 1)) THEN [len |-> 1, valid |-> FALSE]
    ELSE IF w = 2 THEN [len |-> 2, valid |-> TRUE]
    ELSE IF ~IsCont(safe_get(s, i + 2)) THEN [len |-> 2, valid |-> FALSE]
    ELSE IF w = 3 THEN [len |-> 3, valid |-> TRUE]
    ELSE IF ~IsCont(safe_get(s, i + 3)) THEN [len |-> 3, valid |-> FALSE]
    ELSE [len |-> 4, valid |-> TRUE]

\* U+FFFD REPLACEMENT CHARACTER in UTF-8.
Replacement == <<239, 191, 189>>

RECURSIVE Lossy(_, _)
Lossy(s, i) ==
    IF i > Len(s) THEN <<>>
    ELSE (IF Chunk(s, i).valid THEN SubSeq(s, i, i + Chunk(s, i).len - 1)
          ELSE Replacement) \o Lossy(s, i + Chunk(s, i).len)

\* String::from_utf8_lossy(file).into_owned(), as the bytes of the String:
\* every chunk of file that is no UTF-8 sequence becomes one U+FFFD.
from_utf8_lossy(file) == Lossy(file, 1)

\* What read_output() returns in the current state, as the bytes of the String.
ReadOutputResult ==
    IF StdoutPath \in DOMAIN vfs THEN from_utf8_lossy(vfs[StdoutPath]) ELSE <<>>

\* ---- up to OutCalls syscalls on /dev/stdout, with the host draining it
\* The data segment: the string literal "éA" without its NUL byte.
OutCalls == 3
OutCodeLen == SyscallCodeLen(OutCalls)
OutData == <<195, 169, 65>>
OutMemLen == OutCodeLen + Len(OutData)
OutBufs == {OutCodeLen, OutCodeLen + 1, OutCodeLen + 2}
OutLens == 1..MaxFileLen
OutFds == {1}

OutMenu == SyscallMenu({}, OutLens, OutBufs, OutFds, OutCodeLen)

InitOut ==
    Starts([New(OutMemLen, OutMemLen \div 256, OutMemLen \div 2)
               EXCEPT !.memory = CopyIn(@, OutCodeLen, OutData)])

TickOut == Tick(OutMenu, OutCodeLen, FALSE)

NextOut == TickOut \/ ReadOutput

SpecOut == InitOut /\ [][NextOut]_vars

\* C31: read_output returns the bytes /dev/stdout holds, empties it and
\* leaves the rest of the machine as it is, and a step of the machine keeps
\* what /dev/stdout holds as a prefix: the results of read_output, one after
\* the other, are the bytes the program wrote, each once and in order.
C31_DrainedOutput ==
    [][/\ ReadOutput
          => /\ ReadOutputResult = vfs[StdoutPath]
             /\ vfs' = [vfs EXCEPT ![StdoutPath] = <<>>]
             /\ UNCHANGED <<memory, stack, call_stack, ip, bp, sp, fds, next_fd, brk>>
       /\ TickOut => IsPrefix(vfs[StdoutPath], vfs'[StdoutPath])]_vars

\* ------------------------------------------------------------------ descriptors and files

\* C32: every entry of the fd table names a path that is a key of the VFS,
\* so that the lookup READ and WRITE make through an open fd finds its file;
\* fd 0 names /dev/stdin and fd 1 names /dev/stdout.
C32_FdsNameFiles ==
    /\ \A fd \in DOMAIN fds : fds[fd][1] \in DOMAIN vfs
    /\ 0 \in DOMAIN fds /\ fds[0][1] = StdinPath
    /\ 1 \in DOMAIN fds /\ fds[1][1] = StdoutPath

\* OPEN has created the file "t" and handed out fd 3 for it, a WRITE through
\* fd 3 has found the file and put a byte into it, and the host has drained
\* /dev/stdout or nothing was written to it.
C32_OpenedAndWritten ==
    /\ 3 \in DOMAIN fds
    /\ fds[3][1] = <<116>>
    /\ <<116>> \in DOMAIN vfs
    /\ vfs[<<116>>] # <<>>
    /\ fds[3][2] > 0

\* ------------------------------------------------------------------ frames of active calls

\* C33: a CALL starts the callee's frame at the caller's sp and leaves sp as
\* it is; while the call is active bp stays there, and an LSTORE changes no
\* byte of memory below bp, where the locals the caller stored lie; the RET
\* that ends the call sets sp back to the value it had at the CALL.
C33_CallerLocalsKept ==
    [][/\ \A off \in CpuOffs :
             (call_stack # <<>> /\ result' = "Ok_true" /\ Stepped(<<LSTORE, off>>))
                => \A a \in 0..(Len(memory) - 1) :
                      At(memory', a) # At(memory, a) => a >= bp
       /\ Len(call_stack') = Len(call_stack) + 1 => (bp' = sp /\ sp' = sp)
       /\ Len(call_stack') = Len(call_stack) - 1 => sp' = bp
       /\ Len(call_stack') = Len(call_stack) => bp' = bp]_vars

\* ------------------------------------------------------------------ errors of the abi machine

\* ---- every program of up to AbiMaxLen bytes on the abi machine
\* The bytes are the five opcodes and a byte that is none; they serve as the
\* bytes of a Push immediate as well.
AbiMaxLen == 4
AbiBytes == {0, 1, 16, 32, 240, 255}
AbiPrograms == UNION {[1..n -> AbiBytes] : n \in 1..AbiMaxLen}

InitAbi ==
    \E program \in AbiPrograms :
        StartsWith(New(AbiMaxLen, AbiMaxLen, AbiMaxLen), AbiNew(program))

NextAbi == AbiTick

SpecAbi == InitAbi /\ [][NextAbi]_vars

\* The step of the abi machine returned Err.
AbiErr(status) == status \in {"Err_Segfault", "Err_Underflow", "Err_UnknownOpcode"}

\* C34: a step of the abi machine that returns an error (a stack underflow on
\* Add or Syscall, a Push whose immediate is cut short, an unknown opcode)
\* leaves the value stack and ip as they were before the step.
C34_ErrorKeepsState ==
    [][AbiErr(abi'.status) => (abi'.stack = abi.stack /\ abi'.ip = abi.ip)]_vars

====
